---- MODULE Spec2Model ----
(***************************************************************************)
(* Model of pkg/compressor: the windowed grouping engine (CompressJSON),   *)
(* its configuration resolver (NewCompressor) and the bounded-concurrency  *)
(* batch driver (CompressBatch).                                           *)
(*                                                                         *)
(* Strings are sequences of one-character strings, so that the group key   *)
(* is built by the same concatenation as fmt.Sprintf builds it.  JSON      *)
(* values are tagged records, as gjson.Result tags them.  time.Duration is *)
(* counted in milliseconds (TLC's integers are 32 bits wide, a minute in   *)
(* nanoseconds is not); every duration of the model is a whole number of   *)
(* milliseconds, so d / Second is the quotient the code computes.  For the *)
(* same reason int64 wraps around at IntBits bits instead of 64.  A        *)
(* float64 is the exact value it stands for, written as a decimal of as    *)
(* many digits as it takes, under its sign (so that there are two zeros),  *)
(* or +Inf, -Inf or NaN; every operation rounds its exact result to the    *)
(* nearest float64, ties to even, as IEEE 754 has it.                      *)
(* Objects and arrays carry their text, which gjson hands out as Raw.      *)
(***************************************************************************)
EXTENDS Integers, Sequences, FiniteSets, TLC

VARIABLES
    cfg,      \* c.config: the resolved Config held by the Compressor
    data,     \* CompressJSON: the decoded input document
    pos,      \* CompressJSON: index of the next array element ForEach visits
    groups,   \* CompressJSON: groups map, groupKey -> Group
    jpc,      \* CompressJSON: "idle", "call", "scan", "done"
    jres,     \* CompressJSON: the returned pair [out, err]
    batches,  \* CompressBatch: the input payloads
    results,  \* CompressBatch: the results slice
    next,     \* CompressBatch: index of the next payload the loop dispatches (0-based)
    mpc,      \* CompressBatch: "idle", "call", "add", "acquire", "go", "wait", "returned"
    sem,      \* CompressBatch: number of permits held in the semaphore channel
    wg,       \* CompressBatch: the WaitGroup counter
    wpc,      \* CompressBatch: per index, "none", "ready", "running", "computed",
              \* "release", "finish", "done"
    wres,     \* CompressBatch: per index, what the goroutine's CompressJSON returned
    given,    \* NewCompressor: the caller's Config as it was when the call was made
    caller,   \* NewCompressor: the caller's Config object, which the argument points to
    npc,      \* NewCompressor: "idle", "call", "resolved", "again"
    vals,     \* aggregate: the argument
    agg,      \* aggregate: the returned value
    apc,      \* aggregate: "idle", "call", "done"
    inputLen, \* GetCompressionRatio: len(input)
    outputLen, \* GetCompressionRatio: len(output)
    ratio,    \* GetCompressionRatio: the returned value
    rpc,      \* GetCompressionRatio: "idle", "call", "done"
    calls,    \* concurrent callers of one Compressor: per caller, its current
              \* CompressJSON invocation [data, pos, pc, res]
    maps      \* concurrent callers: the groups maps the invocations have made

jsonVars == <<data, pos, groups, jpc, jres>>
batchVars == <<batches, results, next, mpc, sem, wg, wpc, wres>>
resolverVars == <<given, caller, npc>>
aggVars == <<vals, agg, apc>>
ratioVars == <<inputLen, outputLen, ratio, rpc>>
callVars == <<calls, maps>>

\* What the steps of CompressJSON and CompressBatch leave alone.
utilVars == <<resolverVars, aggVars, ratioVars, callVars>>

vars == <<cfg, jsonVars, batchVars, resolverVars, aggVars, ratioVars, callVars>>

-----------------------------------------------------------------------------
(* Bounds of the model.                                                    *)

MaxElems == 2
MaxBatch == 3
MaxWorkers == 2
MaxValues == 3
MaxLen == 8
MaxCallers == 2

-----------------------------------------------------------------------------
(* Strings and integers.                                                   *)

Abs(x) == IF x < 0 THEN -x ELSE x

\* Go's integer division: truncates toward zero.
GoDiv(a, b) ==
    LET q == Abs(a) \div Abs(b)
    IN  IF (a < 0) # (b < 0) THEN -q ELSE q

\* Mathematical floor division, for a positive divisor.
FloorDiv(a, b) == a \div b

Digits == <<"0", "1", "2", "3", "4", "5", "6", "7", "8", "9">>

IsDigit(c) == \E d \in 1..10 : Digits[d] = c

DigitVal(c) == (CHOOSE d \in 1..10 : Digits[d] = c) - 1

RECURSIVE NatToStr(_)
NatToStr(n) ==
    IF n < 10 THEN <<Digits[n + 1]>>
    ELSE NatToStr(n \div 10) \o <<Digits[(n % 10) + 1]>>

\* fmt's %d verb.
IntToStr(n) == IF n < 0 THEN <<"-">> \o NatToStr(-n) ELSE NatToStr(n)

-----------------------------------------------------------------------------
(* int64.                                                                  *)

\* int64 arithmetic wraps around; the model counts in IntBits bits.
IntBits == 30
MaxInt64 == 2^(IntBits - 1) - 1
MinInt64 == -(2^(IntBits - 1))
WrapInt64(x) == ((x - MinInt64) % (2^IntBits)) + MinInt64

\* n = n*10 + digit over the characters of s, in int64.
RECURSIVE DigitsToNat(_, _)
DigitsToNat(s, acc) ==
    LET half == 2^(IntBits \div 2)
        \* acc * 10 in int64, by halves so that no product leaves TLC's range
        times10(n) == WrapInt64(((((n % 2^IntBits) \div half) * 10) % half) * half
                                + (n % half) * 10)
    IN  IF s = <<>> THEN acc
        ELSE CHOOSE r \in {DigitsToNat(Tail(s), n) :
                             n \in {WrapInt64(times10(acc) + DigitVal(Head(s)))}} : TRUE

\* gjson's parseInt: an optional '-' and then digits only; [n, ok].
ParseInt(s) ==
    LET sign == Len(s) > 0 /\ s[1] = "-"
        body == IF sign THEN Tail(s) ELSE s
    IN  IF body = <<>> \/ \E j \in 1..Len(body) : ~IsDigit(body[j])
        THEN [n |-> 0, ok |-> FALSE]
        ELSE [n |-> IF sign THEN WrapInt64(-DigitsToNat(body, 0)) ELSE DigitsToNat(body, 0),
              ok |-> TRUE]

-----------------------------------------------------------------------------
(* Natural numbers of any size, held as strconv's decimal type holds its   *)
(* digits: the decimal digits 0..9, the most significant first, none for   *)
(* the number 0.                                                           *)

RECURSIVE NatOfInt(_)
NatOfInt(n) == IF n = 0 THEN <<>> ELSE Append(NatOfInt(n \div 10), n % 10)

\* n zeros.
Zeros(n) == IF n <= 0 THEN <<>> ELSE [j \in 1..n |-> 0]

\* d without its leading zeros.
StripLeading(d) ==
    IF \A j \in 1..Len(d) : d[j] = 0 THEN <<>>
    ELSE SubSeq(d, CHOOSE j \in 1..Len(d) : d[j] # 0 /\ \A i \in 1..(j - 1) : d[i] = 0,
                Len(d))

\* a < b
NatLess(a, b) ==
    IF Len(a) # Len(b) THEN Len(a) < Len(b)
    ELSE \E j \in 1..Len(a) : a[j] < b[j] /\ \A i \in 1..(j - 1) : a[i] = b[i]

\* The digits of x + y + c for x and y of one length, as s, and the carry
\* out of the first digit, as c: a run of digits is added as its right half
\* R and then, with the carry of R, its left half L.  (CHOOSE t \in {F(v) :
\* v \in {e}} : TRUE is F(e), with e evaluated before F is.)
RECURSIVE AddCarry(_, _, _)
AddCarry(x, y, c) ==
    IF Len(x) = 1 THEN [s |-> <<(x[1] + y[1] + c) % 10>>, c |-> (x[1] + y[1] + c) \div 10]
    ELSE CHOOSE t \in
            {[s |-> p.L.s \o p.R.s, c |-> p.L.c] :
             p \in {[R |-> R, L |-> AddCarry(SubSeq(x, 1, Len(x) \div 2),
                                             SubSeq(y, 1, Len(x) \div 2), R.c)] :
                      R \in {AddCarry(SubSeq(x, (Len(x) \div 2) + 1, Len(x)),
                                      SubSeq(y, (Len(x) \div 2) + 1, Len(x)), c)}}} : TRUE

\* a + b
NatAdd(a, b) ==
    CHOOSE t \in
        {StripLeading(AddCarry(Zeros(n - Len(a)) \o a, Zeros(n - Len(b)) \o b, 0).s) :
         n \in {1 + IF Len(a) > Len(b) THEN Len(a) ELSE Len(b)}} : TRUE

\* The digits of x - y - c for x and y of one length, and the borrow c out
\* of the first digit.
RECURSIVE SubBorrow(_, _, _)
SubBorrow(x, y, c) ==
    IF Len(x) = 1
    THEN [s |-> <<(x[1] - y[1] - c + 10) % 10>>, c |-> IF x[1] - y[1] - c < 0 THEN 1 ELSE 0]
    ELSE CHOOSE t \in
            {[s |-> p.L.s \o p.R.s, c |-> p.L.c] :
             p \in {[R |-> R, L |-> SubBorrow(SubSeq(x, 1, Len(x) \div 2),
                                              SubSeq(y, 1, Len(x) \div 2), R.c)] :
                      R \in {SubBorrow(SubSeq(x, (Len(x) \div 2) + 1, Len(x)),
                                       SubSeq(y, (Len(x) \div 2) + 1, Len(x)), c)}}} : TRUE

\* a - b, for b <= a
NatSub(a, b) ==
    IF a = <<>> THEN <<>>
    ELSE StripLeading(SubBorrow(a, Zeros(Len(a) - Len(b)) \o b, 0).s)

\* The digits of x * m + c and the carry c out of the first digit.
RECURSIVE MulCarry(_, _, _)
MulCarry(x, m, c) ==
    IF Len(x) = 1 THEN [s |-> <<(x[1] * m + c) % 10>>, c |-> (x[1] * m + c) \div 10]
    ELSE CHOOSE t \in
            {[s |-> p.L.s \o p.R.s, c |-> p.L.c] :
             p \in {[R |-> R, L |-> MulCarry(SubSeq(x, 1, Len(x) \div 2), m, R.c)] :
                      R \in {MulCarry(SubSeq(x, (Len(x) \div 2) + 1, Len(x)), m, c)}}} : TRUE

\* a * m, for an int m of 0..10^8
NatMul(a, m) ==
    IF a = <<>> THEN <<>>
    ELSE CHOOSE w \in {StripLeading(NatOfInt(t.c) \o t.s) : t \in {MulCarry(a, m, 0)}} : TRUE

\* Long division of the digits x by m from the first digit on, r the
\* remainder so far: the digits q of the quotient and the remainder r.
RECURSIVE DivRem(_, _, _)
DivRem(x, m, r) ==
    IF Len(x) = 1 THEN [q |-> <<(r * 10 + x[1]) \div m>>, r |-> (r * 10 + x[1]) % m]
    ELSE CHOOSE t \in
            {[q |-> p.L.q \o p.R.q, r |-> p.R.r] :
             p \in {[L |-> L, R |-> DivRem(SubSeq(x, (Len(x) \div 2) + 1, Len(x)), m, L.r)] :
                      L \in {DivRem(SubSeq(x, 1, Len(x) \div 2), m, r)}}} : TRUE

\* a / m, for an int m of 1..10^8: the quotient q and the remainder r
NatDiv(a, m) ==
    IF a = <<>> THEN [q |-> <<>>, r |-> 0]
    ELSE CHOOSE w \in {[q |-> StripLeading(t.q), r |-> t.r] : t \in {DivRem(a, m, 0)}} : TRUE

\* a * b^n, for b of 2 and 5
RECURSIVE TimesPow(_, _, _)
TimesPow(a, b, n) ==
    IF n <= 10 THEN NatMul(a, b^n)
    ELSE CHOOSE t \in {TimesPow(h, b, n - (n \div 2)) : h \in {TimesPow(a, b, n \div 2)}} : TRUE

-----------------------------------------------------------------------------
(* float64.                                                                *)

\* The decimal d * 10^exp under the sign neg, d without leading and
\* trailing zeros: one value has one record.  The zeros are d = <<>> under
\* either sign.
Dec(neg, d0, exp) ==
    LET trim(d, first, last) ==
            [k |-> "float", neg |-> neg, d |-> SubSeq(d, first, last),
             exp |-> exp + Len(d) - last]
        canonical(d) ==
            IF \A j \in 1..Len(d) : d[j] = 0
            THEN [k |-> "float", neg |-> neg, d |-> <<>>, exp |-> 0]
            ELSE trim(d,
                      CHOOSE j \in 1..Len(d) : d[j] # 0 /\ \A i \in 1..(j - 1) : d[i] = 0,
                      CHOOSE j \in 1..Len(d) : d[j] # 0 /\ \A i \in (j + 1)..Len(d) : d[i] = 0)
    IN  CHOOSE c \in {canonical(d) : d \in {d0}} : TRUE

PosInf == [k |-> "+Inf"]
NegInf == [k |-> "-Inf"]

\* What a float64 division by zero gives for a zero dividend.
NaN == [k |-> "NaN"]

\* The run-time panic of an index out of range.
Panic == [k |-> "panic"]

IsFinite(x) == x.k = "float"

\* 2^52 and 2^53: a float64 has 52 bits of mantissa under the leading one.
TwoTo52 == <<4, 5, 0, 3, 5, 9, 9, 6, 2, 7, 3, 7, 0, 4, 9, 6>>
TwoTo53 == <<9, 0, 0, 7, 1, 9, 9, 2, 5, 4, 7, 4, 0, 9, 9, 2>>

\* m * 2^e under the sign neg: a float64 for m below 2^53 and e up to 971,
\* infinite from 2^1024 on.
Value64(neg, m0, e) ==
    CHOOSE t \in
        {IF e > 971 \/ (e = 971 /\ ~NatLess(m, TwoTo53)) THEN (IF neg THEN NegInf ELSE PosInf)
         ELSE Dec(neg, TimesPow(m, IF e >= 0 THEN 2 ELSE 5, Abs(e)), IF e >= 0 THEN 0 ELSE e) :
         m \in {m0}} : TRUE

\* The value is (s.a / (q * 10^s.k)) * 2^s.e and Q the whole part of
\* s.a / (q * 10^s.k), not yet a mantissa of 53 bits: the same value with
\* the exponent moved towards one.
ScaleNext(s, Q) ==
    CHOOSE t \in
        {[a |-> TimesPow(s.a, by.b, by.n),
          k |-> IF by.b = 5 THEN s.k + by.n ELSE s.k,
          e |-> IF by.b = 5 THEN s.e + by.n ELSE s.e - by.n] :
         by \in {IF ~NatLess(Q, TwoTo53)
                 THEN [b |-> 5, n |-> IF Len(Q) > 17 THEN 3 * (Len(Q) - 16) ELSE 1]
                 ELSE [b |-> 2,
                       n |-> IF Len(Q) >= 16 THEN 1
                             ELSE IF 3 * (16 - size) < s.e + 1074 THEN 3 * (16 - size)
                             ELSE s.e + 1074] :
                 size \in {IF Len(s.a) - s.k < Len(Q) THEN Len(s.a) - s.k ELSE Len(Q)}}} : TRUE

\* The value (s.a / (q * 10^s.k)) * 2^s.e with its exponent moved until the
\* whole part Q of s.a / (q * 10^s.k) has 53 bits, or the exponent is the
\* least one, -1074.
RECURSIVE Scale(_, _)
Scale(s0, q) ==
    CHOOSE t \in
        {IF NatLess(p.Q, TwoTo53) /\ (p.s.e = -1074 \/ ~NatLess(p.Q, TwoTo52)) THEN p.s
         ELSE Scale(ScaleNext(p.s, p.Q), q) :
         p \in {[s |-> s, Q |-> NatDiv(SubSeq(s.a, 1, Len(s.a) - s.k), q).q] :
                  s \in {s0}}} : TRUE

\* s.a / (q * 10^s.k) rounded to a whole number, a tie to the even one:
\* twice the value has the next bit last, and what is cut off is sticky.
Mantissa(s, q) ==
    CHOOSE m \in
        {IF h.half.r = 1
            /\ (h.sticky \/ (h.half.q # <<>> /\ h.half.q[Len(h.half.q)] % 2 = 1))
         THEN NatAdd(h.half.q, <<1>>) ELSE h.half.q :
         h \in {[half |-> NatDiv(dv.whole.q, 2), sticky |-> dv.whole.r # 0 \/ dv.dropped] :
                  dv \in {[whole |-> NatDiv(SubSeq(a2, 1, Len(a2) - s.k), q),
                           dropped |-> \E j \in 1..Len(a2) : j > Len(a2) - s.k /\ a2[j] # 0] :
                            a2 \in {NatMul(s.a, 2)}}}} : TRUE

\* The float64 nearest to c / q for a decimal c.
Nearest64(c, q) ==
    IF \/ c.d = <<>>
       \/ q = 1 /\ c.exp >= 0 /\ Len(c.d) + c.exp <= 15
       \/ q = 1 /\ c.exp \in -11..-1 /\ Len(c.d) <= 15 /\ NatDiv(c.d, 5^(-c.exp)).r = 0
    THEN c
    ELSE IF Len(c.d) + c.exp > 320 THEN (IF c.neg THEN NegInf ELSE PosInf)
    ELSE IF Len(c.d) + c.exp < -330 THEN [k |-> "float", neg |-> c.neg, d |-> <<>>, exp |-> 0]
    ELSE CHOOSE t \in
            {Value64(c.neg, Mantissa(s, q), s.e) :
             s \in {Scale([a |-> c.d \o Zeros(c.exp),
                           k |-> IF c.exp < 0 THEN -c.exp ELSE 0, e |-> 0], q)}} : TRUE

\* The float64 nearest to (d * 10^exp) / q under the sign neg, for an int q
\* of 1..10^8: m * 2^e with m below 2^53 and e from -1074 to 971, ties to
\* the even m, infinite from 2^1024 on.
Round64(neg, d, exp, q) ==
    CHOOSE t \in
        {Nearest64(Dec(neg, IF dv.by.r = 0 THEN dv.by.q ELSE dv.n, exp),
                   IF dv.by.r = 0 THEN 1 ELSE q) :
         dv \in {[n |-> n, by |-> IF q > 1 THEN NatDiv(n, q) ELSE [q |-> n, r |-> 0]] :
                   n \in {d}}} : TRUE

\* float64(a) / float64(b) for ints a and b, b > 0.
Float64(a, b) == Round64(a < 0, NatOfInt(Abs(a)), 0, b)

\* float64(n) of an integer: every integer of the model's width is a
\* float64, so the conversion has nothing to round.
FloatOfInt(n) == Dec(n < 0, NatOfInt(Abs(n)), 0)

\* -x
FloatNeg(x) ==
    CASE x.k = "float" -> [x EXCEPT !.neg = ~@]
      [] x.k = "+Inf" -> NegInf
      [] x.k = "-Inf" -> PosInf
      [] OTHER -> x

\* The digits of the finite x counted in units of 10^e, for e <= x.exp:
\* none for a zero, as for every number without leading zeros.
Aligned(x, e) == IF x.d = <<>> THEN <<>> ELSE x.d \o Zeros(x.exp - e)

\* The exact sum of x and y, their digits a and b taken at one exponent:
\* its sign and its digits.
ExactSum(x, y, a, b) ==
    IF x.neg = y.neg THEN [neg |-> x.neg, d |-> NatAdd(a, b)]
    ELSE IF a = b THEN [neg |-> FALSE, d |-> <<>>]
    ELSE [neg |-> IF NatLess(a, b) THEN y.neg ELSE x.neg,
          d |-> NatSub(IF NatLess(a, b) THEN b ELSE a, IF NatLess(a, b) THEN a ELSE b)]

\* x + y
FloatAdd(x0, y0) ==
    CHOOSE t \in
        {IF "m" \in DOMAIN r THEN Round64(r.m.neg, r.m.d, r.e, 1) ELSE r :
         r \in {CASE x.k = "NaN" \/ y.k = "NaN" -> NaN
                  [] x.k = "float" /\ y.k = "float" ->
                        CHOOSE at \in
                            {[e |-> e, m |-> ExactSum(x, y, Aligned(x, e), Aligned(y, e))] :
                             e \in {IF x.exp < y.exp THEN x.exp ELSE y.exp}} : TRUE
                  [] x.k = "float" -> y
                  [] y.k = "float" -> x
                  [] x.k = y.k -> x
                  [] OTHER -> NaN :
                x \in {x0}, y \in {y0}}} : TRUE

\* x - y on float64.
FloatSub(x, y) == FloatAdd(x, FloatNeg(y))

\* x < y; every comparison with NaN is false, and -0 is not below 0.
FloatLess(x0, y0) ==
    LET less(x, y, a, b) ==
            IF x.neg /\ y.neg THEN NatLess(b, a)
            ELSE IF x.neg THEN a # <<>> \/ b # <<>>
            ELSE ~y.neg /\ NatLess(a, b)
        at(x, y, e) == less(x, y, Aligned(x, e), Aligned(y, e))
        below(x, y) ==
            CASE x.k = "NaN" \/ y.k = "NaN" -> FALSE
              [] x.k = "float" /\ y.k = "float" ->
                    at(x, y, IF x.exp < y.exp THEN x.exp ELSE y.exp)
              [] x.k = y.k -> FALSE
              [] OTHER -> x.k = "-Inf" \/ y.k = "+Inf"
    IN  \E x \in {x0}, y \in {y0} : below(x, y)

\* int64(f) for a float64 as Result.Int() converts it: truncated toward
\* zero; what amd64 gives (the least int64) where f has no int64 value.
IntOfFloat(x0) ==
    LET RECURSIVE int(_, _)
        int(s, acc) == IF s = <<>> THEN acc ELSE int(Tail(s), acc * 10 + Head(s))
        ranged(x, n) == IF x.neg THEN (IF n <= -MinInt64 THEN -n ELSE MinInt64)
                        ELSE IF n <= MaxInt64 THEN n ELSE MinInt64
        trunc(x) ==
            IF x.k # "float" \/ Len(x.d) + x.exp > 9 THEN MinInt64
            ELSE IF x.exp >= 0 THEN ranged(x, int(x.d \o Zeros(x.exp), 0))
            ELSE ranged(x, int(SubSeq(x.d, 1, Len(x.d) + x.exp), 0))
    IN  CHOOSE n \in {trunc(x) : x \in {x0}} : TRUE

-----------------------------------------------------------------------------
(* strconv.ParseFloat(s, 64), its error dropped as gjson drops it.         *)

\* An upper-case letter as its lower-case letter, any other character as is.
Lower(c) ==
    LET upper == <<"A", "B", "C", "D", "E", "F", "G", "H", "I", "J", "K", "L", "M",
                   "N", "O", "P", "Q", "R", "S", "T", "U", "V", "W", "X", "Y", "Z">>
        lower == <<"a", "b", "c", "d", "e", "f", "g", "h", "i", "j", "k", "l", "m",
                   "n", "o", "p", "q", "r", "s", "t", "u", "v", "w", "x", "y", "z">>
    IN  IF \E j \in 1..26 : upper[j] = c
        THEN lower[CHOOSE j \in 1..26 : upper[j] = c] ELSE c

IsHexLetter(c) == Lower(c) \in {"a", "b", "c", "d", "e", "f"}

HexLetterVal(c) == (CHOOSE j \in 1..6 : <<"a", "b", "c", "d", "e", "f">>[j] = Lower(c)) + 9

\* commonPrefixLenIgnoreCase(s, prefix)
RECURSIVE CommonPrefixLen(_, _)
CommonPrefixLen(s, prefix) ==
    IF s = <<>> \/ prefix = <<>> \/ Lower(Head(s)) # Head(prefix) THEN 0
    ELSE 1 + CommonPrefixLen(Tail(s), Tail(prefix))

\* special(s): "inf" and "infinity" under an optional sign, and "nan".
Special(s) ==
    LET none == [f |-> NaN, n |-> 0, ok |-> FALSE]
    IN  IF s = <<>> THEN none
        ELSE IF s[1] \in {"+", "-", "i", "I"}
        THEN LET nsign == IF s[1] \in {"+", "-"} THEN 1 ELSE 0
                 sign == IF s[1] = "-" THEN -1 ELSE 1
                 n0 == CommonPrefixLen(SubSeq(s, nsign + 1, Len(s)),
                                       <<"i", "n", "f", "i", "n", "i", "t", "y">>)
                 n == IF 3 < n0 /\ n0 < 8 THEN 3 ELSE n0
             IN  IF n = 3 \/ n = 8 THEN [f |-> IF sign < 0 THEN NegInf ELSE PosInf, n |-> nsign + n, ok |-> TRUE]
                 ELSE none
        ELSE IF s[1] \in {"n", "N"} /\ CommonPrefixLen(s, <<"n", "a", "n">>) = 3
        THEN [f |-> NaN, n |-> 3, ok |-> TRUE]
        ELSE none

\* underscoreOK(s): underscores only between digits or after a base prefix.
RECURSIVE UnderscoreScan(_, _, _)
UnderscoreScan(s, hex, saw) ==
    IF s = <<>> THEN saw # "_"
    ELSE LET c == Head(s)
         IN  IF IsDigit(c) \/ (hex /\ IsHexLetter(c)) THEN UnderscoreScan(Tail(s), hex, "0")
             ELSE IF c = "_"
             THEN saw = "0" /\ UnderscoreScan(Tail(s), hex, "_")
             ELSE saw # "_" /\ UnderscoreScan(Tail(s), hex, "!")

UnderscoreOK(s0) ==
    LET s == IF Len(s0) >= 1 /\ s0[1] \in {"-", "+"} THEN Tail(s0) ELSE s0
        prefix == Len(s) >= 2 /\ s[1] = "0" /\ Lower(s[2]) \in {"b", "o", "x"}
    IN  IF prefix THEN UnderscoreScan(SubSeq(s, 3, Len(s)), Lower(s[2]) = "x", "0")
        ELSE UnderscoreScan(s, FALSE, "^")

\* The mantissa loop of readFloat from position i (1-based) on; st holds
\* mant, nd, dp, sawdot, sawdigits, und, and i where the loop ends.  mant is
\* the sequence of the digits read, each as its value: all of them, the
\* ones past the 19th too, which readFloat leaves to the decimal
\* conversion, so that the value is the one of the whole literal.
RECURSIVE MantissaLoop(_, _, _, _)
MantissaLoop(s, i, base, st) ==
    IF i > Len(s) THEN [st EXCEPT !.i = i]
    ELSE LET c == s[i]
             digit(v) == [st EXCEPT !.sawdigits = TRUE, !.nd = @ + 1, !.mant = Append(@, v)]
         IN  CASE c = "_" -> MantissaLoop(s, i + 1, base, [st EXCEPT !.und = TRUE])
               [] c = "." ->
                     IF st.sawdot THEN [st EXCEPT !.i = i]
                     ELSE MantissaLoop(s, i + 1, base, [st EXCEPT !.sawdot = TRUE, !.dp = st.nd])
               [] IsDigit(c) ->
                     IF c = "0" /\ st.nd = 0
                     THEN MantissaLoop(s, i + 1, base,
                                       [st EXCEPT !.sawdigits = TRUE, !.dp = @ - 1])
                     ELSE MantissaLoop(s, i + 1, base, digit(DigitVal(c)))
               [] base = 16 /\ IsHexLetter(c) ->
                     MantissaLoop(s, i + 1, base, digit(HexLetterVal(c)))
               [] OTHER -> [st EXCEPT !.i = i]

\* The digits of the exponent from position i on: [e, und, i].
RECURSIVE ExponentLoop(_, _, _)
ExponentLoop(s, i, st) ==
    IF i > Len(s) \/ ~(IsDigit(s[i]) \/ s[i] = "_") THEN [st EXCEPT !.i = i]
    ELSE IF s[i] = "_" THEN ExponentLoop(s, i + 1, [st EXCEPT !.und = TRUE])
    ELSE ExponentLoop(s, i + 1,
                      [st EXCEPT !.e = IF @ < 10000 THEN @ * 10 + DigitVal(s[i]) ELSE @])

\* What readFloat returns where the syntax is wrong.
ReadFloatFail == [ok |-> FALSE, n |-> 0, neg |-> FALSE, base |-> 10, mant |-> <<>>, exp |-> 0]

\* The end of readFloat: last is where reading stopped, dp the place of the
\* point, m the mantissa read.
ReadFloatEnd(s, hex, m, last, und, dp) ==
    IF und /\ ~UnderscoreOK(SubSeq(s, 1, last - 1)) THEN ReadFloatFail
    ELSE [ok |-> TRUE, n |-> last - 1, neg |-> s[1] = "-",
          base |-> IF hex THEN 2 ELSE 10, mant |-> m.mant,
          exp |-> IF m.mant # <<>> THEN dp - (IF hex THEN m.nd * 4 ELSE m.nd) ELSE 0]

\* readFloat after the mantissa m, the point at dp1: the exponent, its
\* digits from position j1 on, which a hexadecimal literal must have.
ReadFloatExponent(s, hex, m, dp1, j1) ==
    IF ~m.sawdigits THEN ReadFloatFail
    ELSE IF m.i <= Len(s) /\ Lower(s[m.i]) = (IF hex THEN "p" ELSE "e")
    THEN IF j1 > Len(s) \/ ~IsDigit(s[j1]) THEN ReadFloatFail
         ELSE CHOOSE r \in
                 {ReadFloatEnd(s, hex, m, x.i, x.und,
                               dp1 + x.e * (IF s[m.i + 1] = "-" THEN -1 ELSE 1)) :
                  x \in {ExponentLoop(s, j1, [e |-> 0, und |-> m.und, i |-> j1])}} : TRUE
    ELSE IF hex THEN ReadFloatFail
    ELSE ReadFloatEnd(s, hex, m, m.i, m.und, dp1)

\* readFloat from position i0 on, past the sign.
ReadFloatFrom(s, i0, hex) ==
    CHOOSE r \in
        {ReadFloatExponent(s, hex, m,
                           IF hex THEN 4 * (IF m.sawdot THEN m.dp ELSE m.nd)
                           ELSE IF m.sawdot THEN m.dp ELSE m.nd,
                           IF m.i + 1 <= Len(s) /\ s[m.i + 1] \in {"+", "-"} THEN m.i + 2
                           ELSE m.i + 1) :
         m \in {MantissaLoop(s, IF hex THEN i0 + 2 ELSE i0, IF hex THEN 16 ELSE 10,
                             [mant |-> <<>>, nd |-> 0, dp |-> 0,
                              sawdot |-> FALSE, sawdigits |-> FALSE,
                              und |-> FALSE, i |-> 0])}} : TRUE

\* readFloat(s): [ok, n, neg, base, mant, exp], n the characters consumed;
\* the value is mant * base^exp, mant in digits of 10 or of 16.
ReadFloat(s) ==
    IF s = <<>> THEN ReadFloatFail
    ELSE CHOOSE r \in
            {ReadFloatFrom(s, i0, i0 + 2 <= Len(s) /\ s[i0] = "0" /\ Lower(s[i0 + 1]) = "x") :
             i0 \in {IF s[1] \in {"+", "-"} THEN 2 ELSE 1}} : TRUE

\* The number of the hexadecimal digits h after the number acc.
RECURSIVE HexNat(_, _)
HexNat(h, acc) ==
    IF h = <<>> THEN acc
    ELSE CHOOSE t \in {HexNat(Tail(h), n) :
                         n \in {NatAdd(NatMul(acc, 16), NatOfInt(Head(h)))}} : TRUE

\* The literal readFloat has read as r, as a float64 where it is zero or
\* beyond the range on either side, else as its sign neg and the decimal
\* d * 10^exp, still to be rounded; n * 2^e is (n * 5^-e) * 10^e for e < 0.
ReadValue(s, r) ==
    IF ~(r.ok /\ r.n = Len(s)) THEN [k |-> "float", neg |-> FALSE, d |-> <<>>, exp |-> 0]
    ELSE IF r.base = 10 THEN [neg |-> r.neg, d |-> r.mant, exp |-> r.exp]
    ELSE IF r.mant = <<>> \/ r.exp < -1200 - 5 * Len(r.mant)
    THEN [k |-> "float", neg |-> r.neg, d |-> <<>>, exp |-> 0]
    ELSE IF r.exp > 1100 THEN (IF r.neg THEN NegInf ELSE PosInf)
    ELSE [neg |-> r.neg,
          d |-> TimesPow(HexNat(r.mant, <<>>), IF r.exp >= 0 THEN 2 ELSE 5, Abs(r.exp)),
          exp |-> IF r.exp >= 0 THEN 0 ELSE r.exp]

\* strconv.ParseFloat(s, 64): the float64 nearest to the literal, infinite
\* where the literal lies beyond the range, 0 where the syntax is wrong.
ParseFloat(s) ==
    CHOOSE t \in
        {IF "k" \in DOMAIN v THEN v ELSE Round64(v.neg, v.d, v.exp, 1) :
         v \in {IF ~sp.ok THEN ReadValue(s, ReadFloat(s))
                ELSE IF sp.n = Len(s) THEN sp.f
                ELSE [k |-> "float", neg |-> FALSE, d |-> <<>>, exp |-> 0] :
                sp \in {Special(s)}}} : TRUE

\* The decimals of n digits next to x that ParseFloat reads back as x: the
\* first n digits of x, the next decimal of n digits (up), both or neither;
\* x itself where it has no more than n digits.
ReadBack(x, n) ==
    IF n >= Len(x.d) THEN {[c |-> x, n |-> n, up |-> FALSE]}
    ELSE {r \in {[c |-> Dec(x.neg,
                            IF u = 1 THEN NatAdd(SubSeq(x.d, 1, n), <<1>>)
                            ELSE SubSeq(x.d, 1, n),
                            x.exp + Len(x.d) - n),
                  n |-> n, up |-> u = 1] : u \in {0, 1}} :
            Round64(r.c.neg, r.c.d, r.c.exp, 1) = x}

\* ReadBack(x, n) for the least n of lo..hi where it is not empty, given
\* that it is not empty for hi: with enough digits, one more is enough too.
RECURSIVE Shortest(_, _, _)
Shortest(x, lo, hi) ==
    CHOOSE t \in
        {IF lo = hi THEN r
         ELSE IF r # {} THEN Shortest(x, lo, (lo + hi) \div 2)
         ELSE Shortest(x, ((lo + hi) \div 2) + 1, hi) :
         r \in {ReadBack(x, (lo + hi) \div 2)}} : TRUE

\* strconv.FormatFloat(f, 'f', -1, 64): the fewest digits that ParseFloat
\* reads back as f, the nearest to f where several do, laid out with no
\* exponent.
FormatFloat(x0) ==
    LET chars(d) == [j \in 1..Len(d) |-> Digits[d[j] + 1]]
        \* the digits d with the point after the first n of them
        layout(d, n) ==
            IF d = <<>> THEN <<"0">>
            ELSE IF n <= 0 THEN <<"0", ".">> \o chars(Zeros(-n)) \o chars(d)
            ELSE IF n >= Len(d) THEN chars(d \o Zeros(n - Len(d)))
            ELSE chars(SubSeq(d, 1, n)) \o <<".">> \o chars(SubSeq(d, n + 1, Len(d)))
        \* x lies nearer to the next decimal of n digits than to its own
        \* first n digits
        nearerUp(x, n) ==
            x.d[n + 1] > 5 \/ (x.d[n + 1] = 5 /\ (Len(x.d) > n + 1 \/ x.d[n] % 2 = 1))
        \* of the decimals rs that read back as x, the nearest to x
        pick(x, rs) ==
            (CHOOSE r \in rs : \A b \in rs : b.up = r.up \/ (r.up <=> nearerUp(x, r.n))).c
        text(c) ==
            CASE c.k = "+Inf" -> <<"+", "I", "n", "f">>
              [] c.k = "-Inf" -> <<"-", "I", "n", "f">>
              [] c.k = "NaN" -> <<"N", "a", "N">>
              [] OTHER -> (IF c.neg THEN <<"-">> ELSE <<>>) \o layout(c.d, Len(c.d) + c.exp)
    IN  CHOOSE t \in
            {text(c) :
             c \in {IF x.k = "float" /\ Len(x.d) > 15 THEN pick(x, Shortest(x, 1, 17)) ELSE x :
                      x \in {x0}}} : TRUE

-----------------------------------------------------------------------------
(* JSON values as gjson.Result sees them.                                  *)

Absent == [k |-> "absent"]
Null == [k |-> "null"]
True == [k |-> "true"]
False == [k |-> "false"]
\* A number written as a plain integer literal, and one written otherwise
\* (with a fraction or an exponent), held as its text.
Num(n) == [k |-> "num", n |-> n]
Real(raw) == [k |-> "real", raw |-> raw]
Str(s) == [k |-> "str", s |-> s]
\* An object and an array, with the text they have in the document.
Obj(f, raw) == [k |-> "object", f |-> f, raw |-> raw]
Arr(es, raw) == [k |-> "array", elems |-> es, raw |-> raw]

\* Result.IsArray / Result.IsObject / Result.Exists.
IsArray(r) == r.k = "array"

IsObject(r) == r.k = "object"

Exists(r) == r.k # "absent"

\* value.Get(field) for a plain field name on an object.
Get(value, field) ==
    IF IsObject(value) /\ field \in DOMAIN value.f THEN value.f[field] ELSE Absent

\* Result.Int() of a number that is not a plain literal of the model's
\* int64: int64(f) where safeInt takes f (safeInt's bound, 2^53 - 1 of 2^63,
\* is MaxInt64 here; NaN passes every comparison of it), else what parseInt
\* reads from the text, else int64(f).
RealInt(raw, f) ==
    IF /\ f.k # "NaN"
       /\ ~(IsFinite(f) /\ \A bound \in {FloatOfInt(MaxInt64)} :
                               ~FloatLess(bound, f) /\ ~FloatLess(f, FloatNeg(bound)))
       /\ ParseInt(raw).ok
    THEN ParseInt(raw).n
    ELSE IntOfFloat(f)

\* Result.Int(): true is 1, a string is parsed, a number converted, all else 0.
ResultInt(r) ==
    CASE r.k = "true" -> 1
      [] r.k = "str" -> ParseInt(r.s).n
      [] r.k = "num" -> r.n
      [] r.k = "real" -> RealInt(r.raw, ParseFloat(r.raw))
      [] OTHER -> 0

\* Result.String(): a string as is, an integer literal as written, another
\* number as FormatFloat prints it, true and false by name, an object and
\* an array as their text, null and a missing value as "".
ResultString(r) ==
    CASE r.k = "str" -> r.s
      [] r.k = "num" -> IntToStr(r.n)
      [] r.k = "real" ->
            IF \A j \in 1..Len(r.raw) : IsDigit(r.raw[j]) \/ (j = 1 /\ r.raw[j] = "-")
            THEN r.raw ELSE FormatFloat(ParseFloat(r.raw))
      [] r.k = "true" -> <<"t", "r", "u", "e">>
      [] r.k = "false" -> <<"f", "a", "l", "s", "e">>
      [] r.k \in {"object", "array"} -> r.raw
      [] OTHER -> <<>>

\* Result.Float(): true is 1, a string is parsed, a number as is, all else 0.
ResultFloat(r) ==
    CASE r.k \in {"str", "real"} -> ParseFloat(IF r.k = "str" THEN r.s ELSE r.raw)
      [] OTHER -> FloatOfInt(IF r.k = "true" THEN 1 ELSE IF r.k = "num" THEN r.n ELSE 0)

-----------------------------------------------------------------------------
(* Config and NewCompressor.                                               *)

Second == 1000
Minute == 60000

FT == <<"t">>
FA == <<"a">>
FB == <<"b">>
FV == <<"v">>
FW == <<"w">>
TimestampName == <<"t", "i", "m", "e", "s", "t", "a", "m", "p">>
ValueName == <<"v", "a", "l", "u", "e">>

NilConfig == [nil |-> TRUE]

DefaultWorkers == 4
FallbackWindowSec == 60

DefaultConfig ==
    [TimestampField |-> TimestampName,
     ValueFields |-> <<ValueName>>,
     GroupByFields |-> <<>>,
     AggregationMethod |-> "sum",
     TimeWindow |-> Minute,
     UniqueFields |-> <<>>,
     Workers |-> DefaultWorkers]

\* A variant that replaces the worker count only when it is zero.
NewCompressorZeroOnly(config) ==
    LET c0 == IF config = NilConfig THEN DefaultConfig ELSE config
    IN  [c0 EXCEPT
            !.TimestampField = IF @ = <<>> THEN TimestampName ELSE @,
            !.ValueFields = IF Len(@) = 0 THEN <<ValueName>> ELSE @,
            !.AggregationMethod = IF @ = "" THEN "sum" ELSE @,
            !.TimeWindow = IF @ = 0 THEN Minute ELSE @,
            !.Workers = IF @ = 0 THEN DefaultWorkers ELSE @]

\* The config the returned Compressor holds.
NewCompressor(config) ==
    LET c0 == IF config = NilConfig THEN DefaultConfig ELSE config
        c1 == IF c0.TimestampField = <<>>
              THEN [c0 EXCEPT !.TimestampField = TimestampName] ELSE c0
        c2 == IF Len(c1.ValueFields) = 0
              THEN [c1 EXCEPT !.ValueFields = <<ValueName>>] ELSE c1
        c3 == IF c2.AggregationMethod = ""
              THEN [c2 EXCEPT !.AggregationMethod = "sum"] ELSE c2
        c4 == IF c3.TimeWindow = 0
              THEN [c3 EXCEPT !.TimeWindow = Minute] ELSE c3
        c5 == IF c4.Workers <= 0
              THEN [c4 EXCEPT !.Workers = DefaultWorkers] ELSE c4
    IN  c5

\* The caller's Config object after the call: the defaults are assigned
\* through the pointer the caller passed, and the Compressor holds a copy of
\* the object made afterwards.  A nil argument points to no object of the
\* caller; the defaults then go to the fresh DefaultConfig().
CallerAfter(config) == IF config = NilConfig THEN NilConfig ELSE NewCompressor(config)

-----------------------------------------------------------------------------
(* CompressJSON: the per-element callback of result.ForEach.               *)

\* windowSec := int64(c.config.TimeWindow.Seconds()), 60 when that is 0.
WindowSec(c) ==
    LET w == GoDiv(c.TimeWindow, Second)
    IN  IF w = 0 THEN FallbackWindowSec ELSE w

\* window := (timestamp / windowSec) * windowSec
Window(c, timestamp) == GoDiv(timestamp, WindowSec(c)) * WindowSec(c)

Timestamp(c, value) == ResultInt(Get(value, c.TimestampField))

\* A variant without the zero-timestamp check.
IncludedAnyObject(c, value) == IsObject(value)

\* The element passes both early returns of the callback.
Included(c, value) == IsObject(value) /\ Timestamp(c, value) # 0

WindowPrefix == <<"w", "i", "n", "d", "o", "w", ":">>
UniquePrefix == <<"u", "n", "i", "q", "u", "e", "_">>

\* The loop over GroupByFields: groupKey += fmt.Sprintf(";%s:%s", field, val.String())
RECURSIVE GroupByPart(_, _)
GroupByPart(fields, value) ==
    IF fields = <<>> THEN <<>>
    ELSE LET val == Get(value, Head(fields))
         IN  (IF Exists(val)
              THEN <<";">> \o Head(fields) \o <<":">> \o ResultString(val)
              ELSE <<>>) \o GroupByPart(Tail(fields), value)

\* The loop over UniqueFields: groupKey += fmt.Sprintf(";unique_%s:%s", field, val.String())
RECURSIVE UniquePart(_, _)
UniquePart(fields, value) ==
    IF fields = <<>> THEN <<>>
    ELSE LET val == Get(value, Head(fields))
         IN  (IF Exists(val)
              THEN <<";">> \o UniquePrefix \o Head(fields) \o <<":">> \o ResultString(val)
              ELSE <<>>) \o UniquePart(Tail(fields), value)

\* A variant whose key leaves the unique fields out.
GroupKeyNoUnique(c, value) ==
    WindowPrefix \o IntToStr(Window(c, Timestamp(c, value)))
        \o GroupByPart(c.GroupByFields, value)

GroupKey(c, value) ==
    WindowPrefix \o IntToStr(Window(c, Timestamp(c, value)))
        \o GroupByPart(c.GroupByFields, value)
        \o UniquePart(c.UniqueFields, value)

Put(m, key, v) == [x \in (DOMAIN m) \cup {key} |-> IF x = key THEN v ELSE m[x]]

\* group.Tags[field] = val.String() for every present field of the list.
RECURSIVE CaptureTags(_, _, _)
CaptureTags(tags, fields, value) ==
    IF fields = <<>> THEN tags
    ELSE LET val == Get(value, Head(fields))
         IN  CaptureTags(IF Exists(val) THEN Put(tags, Head(fields), ResultString(val))
                         ELSE tags,
                         Tail(fields), value)

NewGroup(c, value) ==
    CHOOSE group \in
        {[Window |-> Window(c, timestamp),
          Tags |-> CaptureTags(<<>>, c.GroupByFields \o c.UniqueFields, value),
          Values |-> <<>>,
          Count |-> 0,
          FirstTime |-> timestamp,
          LastTime |-> timestamp] : timestamp \in {Timestamp(c, value)}} : TRUE

\* group.Values = append(group.Values, val.Float()) for every present value field.
RECURSIVE AppendValues(_, _, _)
AppendValues(values, fields, value) ==
    IF fields = <<>> THEN values
    ELSE LET val == Get(value, Head(fields))
         IN  AppendValues(IF Exists(val) THEN Append(values, ResultFloat(val)) ELSE values,
                          Tail(fields), value)

\* A variant that takes the latest arrival for the last-seen timestamp.
UpdateGroupLastArrival(c, group, value) ==
    CHOOSE updated \in
        {[group EXCEPT
            !.FirstTime = IF timestamp < @ THEN timestamp ELSE @,
            !.LastTime = timestamp,
            !.Values = AppendValues(@, c.ValueFields, value),
            !.Count = @ + 1] : timestamp \in {Timestamp(c, value)}} : TRUE

UpdateGroup(c, group, value) ==
    CHOOSE updated \in
        {[group EXCEPT
            !.FirstTime = IF timestamp < @ THEN timestamp ELSE @,
            !.LastTime = IF timestamp > @ THEN timestamp ELSE @,
            !.Values = AppendValues(@, c.ValueFields, value),
            !.Count = @ + 1] : timestamp \in {Timestamp(c, value)}} : TRUE

\* One call of the ForEach callback: the groups map afterwards.
ProcessElement(c, gs, value) ==
    IF ~Included(c, value) THEN gs
    ELSE CHOOSE after \in
             {Put(gs, groupKey,
                  UpdateGroup(c, IF groupKey \in DOMAIN gs THEN gs[groupKey]
                                 ELSE NewGroup(c, value), value)) :
              groupKey \in {GroupKey(c, value)}} : TRUE

RECURSIVE Scan(_, _, _)
Scan(c, gs, elems) ==
    IF elems = <<>> THEN gs
    ELSE Scan(c, ProcessElement(c, gs, Head(elems)), Tail(elems))

-----------------------------------------------------------------------------
(* CompressJSON: aggregation and output.                                   *)

\* sum := 0.0; for _, v := range values { sum += v }
RECURSIVE SumFrom(_, _)
SumFrom(sum, values) ==
    IF values = <<>> THEN sum
    ELSE CHOOSE t \in {SumFrom(s, Tail(values)) : s \in {FloatAdd(sum, Head(values))}} : TRUE

SumOf(values) == SumFrom(FloatOfInt(0), values)

RECURSIVE MinOf(_, _)
MinOf(minVal, values) ==
    IF values = <<>> THEN minVal
    ELSE CHOOSE t \in {MinOf(m, Tail(values)) :
                          m \in {IF FloatLess(Head(values), minVal) THEN Head(values)
                                 ELSE minVal}} : TRUE

RECURSIVE MaxOf(_, _)
MaxOf(maxVal, values) ==
    IF values = <<>> THEN maxVal
    ELSE CHOOSE t \in {MaxOf(m, Tail(values)) :
                          m \in {IF FloatLess(maxVal, Head(values)) THEN Head(values)
                                 ELSE maxVal}} : TRUE

\* sum / float64(len(values))
Quot(sum0, n) ==
    LET over(sum) ==
            CASE sum.k # "float" -> sum
              [] n = 0 -> IF sum.d = <<>> THEN NaN ELSE IF sum.neg THEN NegInf ELSE PosInf
              [] OTHER -> Round64(sum.neg, sum.d, sum.exp, n)
    IN  CHOOSE t \in {over(sum) : sum \in {sum0}} : TRUE

\* A variant without the guard on the empty slice.
NeverEmpty(values) == FALSE

\* len(values) == 0
IsEmpty(values) == Len(values) = 0

aggregate(c, values) ==
    IF IsEmpty(values) THEN FloatOfInt(0)
    ELSE CASE c.AggregationMethod = "min" ->
                 IF Len(values) = 0 THEN Panic
                 ELSE MinOf(values[1], Tail(values))
           [] c.AggregationMethod = "max" ->
                 IF Len(values) = 0 THEN Panic
                 ELSE MaxOf(values[1], Tail(values))
           [] c.AggregationMethod = "count" -> FloatOfInt(Len(values))
           [] c.AggregationMethod = "first" ->
                 IF Len(values) = 0 THEN Panic ELSE values[1]
           [] c.AggregationMethod = "last" ->
                 IF Len(values) = 0 THEN Panic ELSE values[Len(values)]
           \* "sum", "avg", "mean" and the default case all run the sum loop
           [] OTHER ->
                 CHOOSE total \in
                     {IF c.AggregationMethod \in {"avg", "mean"}
                      THEN Quot(sum, Len(values)) ELSE sum :
                      sum \in {SumOf(values)}} : TRUE

EmittedTimestamp(c, group) ==
    CASE c.AggregationMethod = "first" -> group.FirstTime
      [] c.AggregationMethod = "last" -> group.LastTime
      [] OTHER -> GoDiv(WrapInt64(group.FirstTime + group.LastTime), 2)

EmittedValueField(c) ==
    IF Len(c.ValueFields) = 1 THEN c.ValueFields[1] ELSE ValueName

\* for k, v := range group.Tags { obj[k] = v }
MergeTags(obj, tags) ==
    [x \in (DOMAIN obj) \cup (DOMAIN tags) |->
        IF x \in DOMAIN tags THEN Str(tags[x]) ELSE obj[x]]

\* The output object of one group.
OutputObject(c, group) ==
    MergeTags(Put(Put(<<>>, c.TimestampField, Num(EmittedTimestamp(c, group))),
                  EmittedValueField(c), Num(aggregate(c, group.Values))),
              group.Tags)

NilBytes == [k |-> "nil"]
Bytes(recs) == [k |-> "json", recs |-> recs]
NoError == "nil"
ErrNotArray == "expected JSON array"

\* The orders in which `for _, group := range groups` may visit the map.
Orders(gs) ==
    {o \in [1..Cardinality(DOMAIN gs) -> DOMAIN gs] :
        \A x, y \in DOMAIN o : x # y => o[x] # o[y]}

ErrUnsupported(x) ==
    CASE x.k = "+Inf" -> "json: unsupported value: +Inf"
      [] x.k = "-Inf" -> "json: unsupported value: -Inf"
      [] OTHER -> "json: unsupported value: NaN"

\* The record holds a float64 that JSON cannot express.
Unsupported(c, rec) ==
    /\ rec[EmittedValueField(c)].k = "num"
    /\ rec[EmittedValueField(c)].n.k \in {"+Inf", "-Inf", "NaN"}

\* return json.Marshal(output), for one visiting order of the groups: the
\* bytes, or nil and the error of the first record that cannot be encoded.
Marshal(c, gs, order) ==
    LET bad(recs) == {n \in DOMAIN recs : Unsupported(c, recs[n])}
        first(recs) == CHOOSE n \in bad(recs) : \A m \in bad(recs) : n <= m
        encode(recs) ==
            IF bad(recs) = {} THEN [out |-> Bytes(recs), err |-> NoError]
            ELSE [out |-> NilBytes,
                  err |-> ErrUnsupported(recs[first(recs)][EmittedValueField(c)].n)]
    IN  CHOOSE r \in
            {encode(recs) :
             recs \in {[n \in DOMAIN order |-> OutputObject(c, gs[order[n]])]}} : TRUE

\* A lenient variant: a non-array input compresses to the empty array.
NotArrayAsEmpty == [out |-> Bytes(<<>>), err |-> NoError]

\* return nil, fmt.Errorf("expected JSON array")
NotArrayResult == [out |-> NilBytes, err |-> ErrNotArray]

\* Every (output, error) pair one call of CompressJSON may return.
CompressJSON(c, doc) ==
    IF ~IsArray(doc) THEN {NotArrayResult}
    ELSE UNION {{Marshal(c, gs, o) : o \in Orders(gs)} :
                   gs \in {Scan(c, <<>>, doc.elems)}}

-----------------------------------------------------------------------------
(* The inputs the model draws.                                             *)

\* The text of a value in a document written without white space.
Text(v) ==
    CASE v.k = "null" -> <<"n", "u", "l", "l">>
      [] v.k = "true" -> <<"t", "r", "u", "e">>
      [] v.k = "false" -> <<"f", "a", "l", "s", "e">>
      [] v.k = "num" -> IntToStr(v.n)
      [] v.k = "str" -> <<"\"">> \o v.s \o <<"\"">>
      [] OTHER -> v.raw

\* The members of an object's text: the fields of f that are not Absent, in
\* the order of names.
RECURSIVE MemberText(_, _, _)
MemberText(names, f, first) ==
    IF names = <<>> THEN <<>>
    ELSE IF f[Head(names)].k = "absent" THEN MemberText(Tail(names), f, first)
    ELSE (IF first THEN <<>> ELSE <<",">>)
             \o <<"\"">> \o Head(names) \o <<"\"", ":">> \o Text(f[Head(names)])
             \o MemberText(Tail(names), f, FALSE)

\* An object holding the fields of f that are not Absent.
MkObj(names, f) ==
    Obj([x \in {y \in DOMAIN f : f[y].k # "absent"} |-> f[x]],
        <<"{">> \o MemberText(names, f, TRUE) \o <<"}">>)

RECURSIVE ElementText(_, _)
ElementText(es, first) ==
    IF es = <<>> THEN <<>>
    ELSE (IF first THEN <<>> ELSE <<",">>) \o Text(Head(es)) \o ElementText(Tail(es), FALSE)

\* An array of the elements es.
MkArr(es) == Arr(es, <<"[">> \o ElementText(es, TRUE) \o <<"]">>)

\* A nested object, with white space as it may stand in a document.
Nested == Obj((<<"f">> :> Str(<<"g">>)), <<"{", "\"", "f", "\"", ":", " ", "\"", "g", "\"", "}">>)

Objects ==
    {MkObj(<<FA, FB, FT, FV>>,
           [x \in {FT, FA, FB, FV} |->
                CASE x = FT -> t [] x = FA -> a [] x = FB -> b [] OTHER -> v]) :
        t \in {Num(-3), Num(3)}, a \in {Str(<<"x">>), Str(<<"x", ";", "b", ":", "y">>)},
        b \in {Absent, Str(<<"y">>)}, v \in {Absent, Num(5)}}

\* Objects the scan skips: the timestamp missing, zero, not a number and
\* false; they hold a value that no JSON number expresses.
NoTimestampObjects ==
    {MkObj(<<FA, FT, FV>>,
           [x \in {FT, FA, FV} |->
                CASE x = FT -> t [] x = FA -> Nested [] OTHER -> Str(<<"I", "n", "f">>)]) :
        t \in {Absent, Num(0), Str(<<"x">>), False}}

\* The records, the objects the scan skips, and a number.
Elements == Objects \cup NoTimestampObjects \cup {Num(1)}

ArrayDocs == {MkArr(es) : es \in UNION {[1..n -> Elements] : n \in 0..MaxElems}}

NonArrayDocs == {Absent, Null, MkObj(<<FT, FV>>, [x \in {FT, FV} |-> Num(3)])}

JSONConfigs ==
    {NewCompressor(c) : c \in
        [TimestampField : {FT},
         ValueFields : {<<FV>>},
         GroupByFields : {<<>>, <<FA, FB>>},
         AggregationMethod : {"sum"},
         TimeWindow : {2 * Second, Second \div 2},
         UniqueFields : {<<>>, <<FA, FB>>},
         Workers : {0}]}

BatchConfigs ==
    {NewCompressor(c) : c \in
        [TimestampField : {FT},
         ValueFields : {<<FV>>},
         GroupByFields : {<<FB>>},
         AggregationMethod : {"sum"},
         TimeWindow : {2 * Second},
         UniqueFields : {<<>>},
         Workers : 0..MaxWorkers]}

BatchRecord(b) ==
    MkObj(<<FB, FT, FV>>,
          [x \in {FT, FB, FV} |-> CASE x = FT -> Num(3) [] x = FB -> b [] OTHER -> Num(5)])

\* A record whose value is the string "Inf": its sum cannot be encoded.
InfRecord ==
    MkObj(<<FT, FV>>, [x \in {FT, FV} |-> IF x = FT THEN Num(3) ELSE Str(<<"I", "n", "f">>)])

\* The payloads of a batch: one that is not an array, one that compresses to
\* two records, and one whose output json.Marshal refuses.
BatchDocs ==
    {Absent, MkArr(<<BatchRecord(Absent), BatchRecord(Str(<<"y">>))>>),
     MkArr(<<InfRecord>>)}

\* Inputs for the output records: every aggregation family of the emitted
\* timestamp, one and two value fields, the timestamp field under the name
\* "value", tags under the names of the timestamp and of the value field,
\* timestamps at the upper end of the integer range, and values that are a
\* number, a nested object, missing, and strings that parse to 5 and to +Inf.
OutConfigs ==
    {NewCompressor(c) : c \in
        [TimestampField : {FT, ValueName},
         ValueFields : {<<FV>>, <<FV, FW>>},
         GroupByFields : {<<>>, <<FT>>, <<FV>>},
         AggregationMethod : {"sum", "count", "first", "last"},
         TimeWindow : {Minute},
         UniqueFields : {<<>>, <<FT>>},
         Workers : {0}]}

OutObjects ==
    {MkObj(<<FT, FV, ValueName, FW>>,
           [x \in {FT, ValueName, FV, FW} |->
                CASE x = FT -> t [] x = ValueName -> u [] x = FV -> v [] OTHER -> w]) :
        t \in {Num(3), Num(MaxInt64)}, u \in {Absent, Num(4)},
        v \in {Absent, Num(5), Nested},
        w \in {Absent, Num(7), Str(<<"+", "5">>), Str(<<"I", "n", "f">>)}}

OutDocs ==
    {MkArr(es) : es \in UNION {[1..n -> OutObjects] : n \in 0..MaxElems}} \cup {Null}

-----------------------------------------------------------------------------
(* CompressJSON as a state machine: one step per array element.            *)

JIdle ==
    /\ data = Absent /\ pos = 1 /\ groups = <<>> /\ jpc = "idle"
    /\ jres = [out |-> NilBytes, err |-> NoError]

BIdle ==
    /\ batches = <<>> /\ results = <<>> /\ next = 0 /\ mpc = "idle"
    /\ sem = 0 /\ wg = 0 /\ wpc = <<>> /\ wres = <<>>

NIdle == given = NilConfig /\ caller = NilConfig /\ npc = "idle"

AIdle == vals = <<>> /\ agg = Float64(0, 1) /\ apc = "idle"

RIdle == inputLen = 0 /\ outputLen = 0 /\ ratio = Float64(0, 1) /\ rpc = "idle"

CIdle == calls = <<>> /\ maps = <<>>

InitJSON ==
    /\ cfg \in JSONConfigs
    /\ data \in ArrayDocs \cup NonArrayDocs
    /\ pos = 1
    /\ groups = <<>>
    /\ jpc = "call"
    /\ jres = [out |-> NilBytes, err |-> NoError]
    /\ BIdle
    /\ NIdle /\ AIdle /\ RIdle /\ CIdle

\* if !result.IsArray() { return nil, fmt.Errorf("expected JSON array") }
JReject ==
    /\ jpc = "call"
    /\ ~IsArray(data)
    /\ jres' = NotArrayResult
    /\ jpc' = "done"
    /\ UNCHANGED <<cfg, data, pos, groups, batchVars, utilVars>>

\* groups := make(map[string]*Group)
JBegin ==
    /\ jpc = "call"
    /\ IsArray(data)
    /\ groups' = <<>>
    /\ pos' = 1
    /\ jpc' = "scan"
    /\ UNCHANGED <<cfg, data, jres, batchVars, utilVars>>

\* One call of the ForEach callback.
JVisit ==
    /\ jpc = "scan"
    /\ pos <= Len(data.elems)
    /\ groups' = ProcessElement(cfg, groups, data.elems[pos])
    /\ pos' = pos + 1
    /\ UNCHANGED <<cfg, data, jpc, jres, batchVars, utilVars>>

\* The loop over the groups map and json.Marshal.
JReturn ==
    /\ jpc = "scan"
    /\ pos > Len(data.elems)
    /\ \E o \in Orders(groups) : jres' = Marshal(cfg, groups, o)
    /\ jpc' = "done"
    /\ UNCHANGED <<cfg, data, pos, groups, batchVars, utilVars>>

NextJSON == JReject \/ JBegin \/ JVisit \/ JReturn

SpecJSON == InitJSON /\ [][NextJSON]_vars

\* The same machine on the inputs for the output records.
InitOut ==
    /\ cfg \in OutConfigs
    /\ data \in OutDocs
    /\ pos = 1
    /\ groups = <<>>
    /\ jpc = "call"
    /\ jres = [out |-> NilBytes, err |-> NoError]
    /\ BIdle
    /\ NIdle /\ AIdle /\ RIdle /\ CIdle

SpecOut == InitOut /\ [][NextJSON]_vars

-----------------------------------------------------------------------------
(* NewCompressor as a state machine: a call on the caller's Config, and a  *)
(* second call on a copy of the config the first Compressor holds.         *)

PartialConfigs ==
    [TimestampField : {<<>>, FT},
     ValueFields : {<<>>, <<FV>>},
     GroupByFields : {<<>>, <<FA>>},
     AggregationMethod : {"", "avg"},
     TimeWindow : {0, -Second, 2 * Second},
     UniqueFields : {<<>>},
     Workers : -1..MaxWorkers]

InitConfig ==
    /\ given \in PartialConfigs \cup {NilConfig}
    /\ caller = given
    /\ cfg = NilConfig
    /\ npc = "call"
    /\ JIdle /\ BIdle /\ AIdle /\ RIdle /\ CIdle

\* c := NewCompressor(config)
NNew ==
    /\ npc = "call"
    /\ cfg' = NewCompressor(caller)
    /\ caller' = CallerAfter(caller)
    /\ npc' = "resolved"
    /\ UNCHANGED <<given, jsonVars, batchVars, aggVars, ratioVars, callVars>>

\* resolved := c.config; NewCompressor(&resolved)
NAgain ==
    /\ npc = "resolved"
    /\ cfg' = NewCompressor(cfg)
    /\ npc' = "again"
    /\ UNCHANGED <<given, caller, jsonVars, batchVars, aggVars, ratioVars, callVars>>

NextConfig == NNew \/ NAgain

SpecConfig == InitConfig /\ [][NextConfig]_vars

-----------------------------------------------------------------------------
(* GetCompressionRatio: one call on two byte slices, of which it reads the *)
(* lengths only.                                                           *)

\* A variant that keeps the result within [0, 1].
GetCompressionRatioClamped(inLen, outLen) ==
    IF inLen = 0 \/ outLen > inLen THEN Float64(0, 1)
    ELSE FloatSub(Float64(1, 1), Float64(outLen, inLen))

GetCompressionRatio(inLen, outLen) ==
    IF inLen = 0 THEN Float64(0, 1)
    ELSE FloatSub(Float64(1, 1), Float64(outLen, inLen))

InitRatio ==
    /\ cfg = DefaultConfig
    /\ inputLen \in 0..MaxLen
    /\ outputLen \in 0..MaxLen
    /\ ratio = Float64(0, 1)
    /\ rpc = "call"
    /\ JIdle /\ BIdle /\ NIdle /\ AIdle /\ CIdle

\* ratio := c.GetCompressionRatio(input, output)
RatioCall ==
    /\ rpc = "call"
    /\ ratio' = GetCompressionRatio(inputLen, outputLen)
    /\ rpc' = "done"
    /\ UNCHANGED <<cfg, inputLen, outputLen, jsonVars, batchVars, resolverVars, aggVars, callVars>>

NextRatio == RatioCall

SpecRatio == InitRatio /\ [][NextRatio]_vars

-----------------------------------------------------------------------------
(* aggregate as a state machine: one call on one slice.                    *)

AggMethods == {"sum", "avg", "mean", "min", "max", "count", "first", "last", "invalid"}

\* NewCompressor(&Config{AggregationMethod: method})
AggConfigs ==
    {NewCompressor([TimestampField |-> <<>>,
                    ValueFields |-> <<>>,
                    GroupByFields |-> <<>>,
                    AggregationMethod |-> m,
                    TimeWindow |-> 0,
                    UniqueFields |-> <<>>,
                    Workers |-> 0]) : m \in AggMethods}

\* The finite elements other than -0, counted in 32nds: -3, -1/16, 0, 1/32,
\* 1, 3/2, 5 and 8, and each as a float64.
AggUnits == {-96, -2, 0, 1, 32, 48, 160, 256}

AggNumbers == [u \in AggUnits |-> Float64(u, 32)]

\* The elements of the slices: numbers of either sign, some of them below
\* 1/10 in size, both zeros, both infinities and NaN, which val.Float()
\* gives for the strings "-0", "Inf", "-Inf" and "NaN".
AggElements ==
    {AggNumbers[u] : u \in AggUnits} \cup {FloatNeg(Float64(0, 1)), PosInf, NegInf, NaN}

AggSlices == UNION {[1..n -> AggElements] : n \in 0..MaxValues}

InitAgg ==
    /\ cfg \in AggConfigs
    /\ vals \in AggSlices
    /\ agg = Float64(0, 1)
    /\ apc = "call"
    /\ JIdle /\ BIdle /\ NIdle /\ RIdle /\ CIdle

\* result := c.aggregate(values)
AggregateCall ==
    /\ apc = "call"
    /\ agg' = aggregate(cfg, vals)
    /\ apc' = "done"
    /\ UNCHANGED <<cfg, vals, jsonVars, batchVars, resolverVars, ratioVars, callVars>>

NextAgg == AggregateCall

SpecAgg == InitAgg /\ [][NextAgg]_vars

-----------------------------------------------------------------------------
(* CompressBatch: the dispatch loop and one goroutine per payload.         *)

Init ==
    /\ cfg \in BatchConfigs
    /\ batches \in UNION {[1..n -> BatchDocs] : n \in 0..MaxBatch}
    /\ results = <<>>
    /\ next = 0
    /\ mpc = "call"
    /\ sem = 0
    /\ wg = 0
    /\ wpc = [idx \in DOMAIN batches |-> "none"]
    /\ wres = [idx \in DOMAIN batches |-> [out |-> NilBytes, err |-> NoError]]
    /\ JIdle
    /\ NIdle /\ AIdle /\ RIdle /\ CIdle

\* results := make([][]byte, len(batches)); semaphore := make(chan struct{}, Workers)
BCall ==
    /\ mpc = "call"
    /\ results' = [idx \in DOMAIN batches |-> NilBytes]
    /\ sem' = 0
    /\ wg' = 0
    /\ mpc' = IF Len(batches) = 0 THEN "wait" ELSE "add"
    /\ UNCHANGED <<cfg, batches, next, wpc, wres, jsonVars, utilVars>>

\* wg.Add(1)
BAdd ==
    /\ mpc = "add"
    /\ wg' = wg + 1
    /\ mpc' = "acquire"
    /\ UNCHANGED <<cfg, batches, results, next, sem, wpc, wres, jsonVars, utilVars>>

\* A variant with no permit pool: the send never blocks.
CanSendUnbounded == TRUE

\* A send on a channel of capacity Workers proceeds only while it is not full.
CanSend == sem < cfg.Workers

\* semaphore <- struct{}{}
BAcquire ==
    /\ mpc = "acquire"
    /\ CanSend
    /\ sem' = sem + 1
    /\ mpc' = "go"
    /\ UNCHANGED <<cfg, batches, results, next, wg, wpc, wres, jsonVars, utilVars>>

\* go func(idx int, data []byte) {...}(i, batch), and the loop's next iteration.
BGo ==
    /\ mpc = "go"
    /\ wpc' = [wpc EXCEPT ![next + 1] = "ready"]
    /\ next' = next + 1
    /\ mpc' = IF next + 1 = Len(batches) THEN "wait" ELSE "add"
    /\ UNCHANGED <<cfg, batches, results, sem, wg, wres, jsonVars, utilVars>>

\* A variant with no completion barrier.
WaitSkipped == TRUE

\* wg.Wait() returns when the counter is zero.
WaitOver == wg = 0

\* wg.Wait(); return results
BWait ==
    /\ mpc = "wait"
    /\ WaitOver
    /\ mpc' = "returned"
    /\ UNCHANGED <<cfg, batches, results, next, sem, wg, wpc, wres, jsonVars, utilVars>>

\* The goroutine starts and calls c.CompressJSON(data).
WStart(idx) ==
    /\ wpc[idx] = "ready"
    /\ wpc' = [wpc EXCEPT ![idx] = "running"]
    /\ UNCHANGED <<cfg, batches, results, next, mpc, sem, wg, wres, jsonVars, utilVars>>

\* c.CompressJSON(data) returns.
WFinish(idx) ==
    /\ wpc[idx] = "running"
    /\ \E r \in CompressJSON(cfg, batches[idx]) : wres' = [wres EXCEPT ![idx] = r]
    /\ wpc' = [wpc EXCEPT ![idx] = "computed"]
    /\ UNCHANGED <<cfg, batches, results, next, mpc, sem, wg, jsonVars, utilVars>>

\* A completion-order variant: the slot after those already filled.
SlotByCompletion(idx) ==
    Cardinality({j \in DOMAIN wpc : wpc[j] \in {"release", "finish", "done"}}) + 1

\* A variant in which every goroutine writes the first slot.
SlotShared(idx) == 1

\* The slot the goroutine of index idx writes.
SlotOf(idx) == idx

\* A fail-fast variant: an item's error discards the whole batch.
StoreOrDiscard(res, idx, r) ==
    IF r.err = NoError THEN [res EXCEPT ![idx] = r.out]
    ELSE [j \in DOMAIN res |-> NilBytes]

\* if compressed, err := ...; err == nil { results[idx] = compressed }
Store(res, idx, r) ==
    IF r.err = NoError THEN [res EXCEPT ![idx] = r.out] ELSE res

WStore(idx) ==
    /\ wpc[idx] = "computed"
    /\ results' = Store(results, SlotOf(idx), wres[idx])
    /\ wpc' = [wpc EXCEPT ![idx] = "release"]
    /\ UNCHANGED <<cfg, batches, next, mpc, sem, wg, wres, jsonVars, utilVars>>

\* A variant in which a finished goroutine keeps its permit.
PermitKept(permits) == permits

\* <-semaphore takes one value out of the channel.
AfterReceive(permits) == permits - 1

\* defer func() { <-semaphore }()  (runs first: deferred calls run last-in first-out)
WRelease(idx) ==
    /\ wpc[idx] = "release"
    /\ sem > 0
    /\ sem' = AfterReceive(sem)
    /\ wpc' = [wpc EXCEPT ![idx] = "finish"]
    /\ UNCHANGED <<cfg, batches, results, next, mpc, wg, wres, jsonVars, utilVars>>

\* defer wg.Done()
WDone(idx) ==
    /\ wpc[idx] = "finish"
    /\ wg' = wg - 1
    /\ wpc' = [wpc EXCEPT ![idx] = "done"]
    /\ UNCHANGED <<cfg, batches, results, next, mpc, sem, wres, jsonVars, utilVars>>

Next ==
    \/ BCall
    \/ BAdd
    \/ BAcquire
    \/ BGo
    \/ BWait
    \/ \E idx \in DOMAIN batches : WStart(idx)
    \/ \E idx \in DOMAIN batches : WFinish(idx)
    \/ \E idx \in DOMAIN batches : WStore(idx)
    \/ \E idx \in DOMAIN batches : WRelease(idx)
    \/ \E idx \in DOMAIN batches : WDone(idx)

Spec == Init /\ [][Next]_vars

\* The steps of the calling goroutine, and those of the goroutine of one index.
Dispatch == BCall \/ BAdd \/ BAcquire \/ BGo \/ BWait

Worker(idx) ==
    /\ idx \in DOMAIN batches
    /\ WStart(idx) \/ WFinish(idx) \/ WStore(idx) \/ WRelease(idx) \/ WDone(idx)

\* The Go scheduler runs every goroutine that stays runnable: the caller and
\* each worker take their next step when it stays possible.
Fairness ==
    /\ WF_vars(Dispatch)
    /\ \A idx \in 1..MaxBatch : WF_vars(Worker(idx))

\* Termination does not depend on what the payloads hold: one payload that
\* fails and one that compresses to one record.
FairDocs == {Absent, MkArr(<<BatchRecord(Absent)>>)}

InitFair ==
    /\ cfg \in BatchConfigs
    /\ batches \in UNION {[1..n -> FairDocs] : n \in 0..MaxBatch}
    /\ results = <<>>
    /\ next = 0
    /\ mpc = "call"
    /\ sem = 0
    /\ wg = 0
    /\ wpc = [idx \in DOMAIN batches |-> "none"]
    /\ wres = [idx \in DOMAIN batches |-> [out |-> NilBytes, err |-> NoError]]
    /\ JIdle
    /\ NIdle /\ AIdle /\ RIdle /\ CIdle

SpecFair == InitFair /\ [][Next]_vars /\ Fairness

-----------------------------------------------------------------------------
(* One Compressor under concurrent callers: every caller (a goroutine of   *)
(* CompressBatch or of the application) calls CompressJSON again and       *)
(* again, and the steps of the invocations interleave.                     *)

Callers == 1..MaxCallers

CallGivens ==
    [TimestampField : {FT},
     ValueFields : {<<FV>>},
     GroupByFields : {<<>>, <<FB>>},
     AggregationMethod : {"sum"},
     TimeWindow : {2 * Second},
     UniqueFields : {<<>>},
     Workers : {0}]

CallDocs == BatchDocs \cup {MkArr(<<>>), MkArr(<<BatchRecord(Str(<<"y">>))>>)}

NoCall == [data |-> Absent, pos |-> 1, pc |-> "idle", res |-> [out |-> NilBytes, err |-> NoError]]

InitCalls ==
    /\ given \in CallGivens
    /\ caller = CallerAfter(given)
    /\ cfg = NewCompressor(given)
    /\ npc = "resolved"
    /\ calls = [p \in Callers |-> NoCall]
    /\ maps = [p \in Callers |-> <<>>]
    /\ JIdle /\ BIdle /\ AIdle /\ RIdle

\* A variant with one groups map, held by the Compressor.
OneMap(p) == 1

\* The groups map of caller p's invocation: the one the invocation made.
MapOf(p) == p

\* c.CompressJSON(data) is called.
CCall(p) ==
    /\ calls[p].pc \in {"idle", "done"}
    /\ \E d \in CallDocs : calls' = [calls EXCEPT ![p] = [NoCall EXCEPT !.data = d, !.pc = "call"]]
    /\ UNCHANGED <<cfg, maps, resolverVars, jsonVars, batchVars, aggVars, ratioVars>>

\* if !result.IsArray() { return nil, fmt.Errorf("expected JSON array") }
CReject(p) ==
    /\ calls[p].pc = "call"
    /\ ~IsArray(calls[p].data)
    /\ calls' = [calls EXCEPT ![p].res = NotArrayResult, ![p].pc = "done"]
    /\ UNCHANGED <<cfg, maps, resolverVars, jsonVars, batchVars, aggVars, ratioVars>>

\* groups := make(map[string]*Group)
CBegin(p) ==
    /\ calls[p].pc = "call"
    /\ IsArray(calls[p].data)
    /\ maps' = [maps EXCEPT ![MapOf(p)] = <<>>]
    /\ calls' = [calls EXCEPT ![p].pc = "scan"]
    /\ UNCHANGED <<cfg, resolverVars, jsonVars, batchVars, aggVars, ratioVars>>

\* One call of the ForEach callback.
CVisit(p) ==
    /\ calls[p].pc = "scan"
    /\ calls[p].pos <= Len(calls[p].data.elems)
    /\ maps' = [maps EXCEPT ![MapOf(p)] =
                    ProcessElement(cfg, @, calls[p].data.elems[calls[p].pos])]
    /\ calls' = [calls EXCEPT ![p].pos = @ + 1]
    /\ UNCHANGED <<cfg, resolverVars, jsonVars, batchVars, aggVars, ratioVars>>

\* The loop over the groups map and json.Marshal.
CReturn(p) ==
    /\ calls[p].pc = "scan"
    /\ calls[p].pos > Len(calls[p].data.elems)
    /\ \E o \in Orders(maps[MapOf(p)]) :
          calls' = [calls EXCEPT
                       ![p].res = Marshal(cfg, maps[MapOf(p)], o),
                       ![p].pc = "done"]
    /\ UNCHANGED <<cfg, maps, resolverVars, jsonVars, batchVars, aggVars, ratioVars>>

NextCalls ==
    \/ \E p \in Callers : CCall(p)
    \/ \E p \in Callers : CReject(p)
    \/ \E p \in Callers : CBegin(p)
    \/ \E p \in Callers : CVisit(p)
    \/ \E p \in Callers : CReturn(p)

SpecCalls == InitCalls /\ [][NextCalls]_vars

-----------------------------------------------------------------------------
(* Properties of CompressBatch, checked under Spec.                        *)

Indexes == DOMAIN batches

\* Goroutines whose CompressJSON invocation has started and not yet returned.
Running == {idx \in Indexes : wpc[idx] = "running"}

\* Goroutines that exist and have not yet given their permit back.
HoldingPermit == {idx \in Indexes : wpc[idx] \in {"ready", "running", "computed", "release"}}

\* Goroutines past the write of their slot.
Stored == {idx \in Indexes : wpc[idx] \in {"release", "finish", "done"}}

\* Two payloads hold the same records, in whatever order.
SamePayload(x, y) ==
    /\ x.k = y.k
    /\ x.k = "json" =>
          /\ Len(x.recs) = Len(y.recs)
          /\ {x.recs[n] : n \in DOMAIN x.recs} = {y.recs[n] : n \in DOMAIN y.recs}

\* C1: at every moment of a CompressBatch call the number of CompressJSON
\* invocations started and not yet completed is at most Workers, and every
\* goroutine from its creation to its release holds one permit of the pool
\* (the permit taken for it before it was started).
C1_RunningWithinWorkers ==
    mpc # "call" =>
        /\ Cardinality(Running) <= cfg.Workers
        /\ sem = Cardinality(HoldingPermit) + (IF mpc = "go" THEN 1 ELSE 0)
        /\ sem <= cfg.Workers

\* The pool is exhausted: Workers invocations run and the loop waits for a permit.
C1_Witness ==
    /\ mpc = "acquire"
    /\ cfg.Workers >= 2
    /\ Cardinality(Running) = cfg.Workers
    /\ sem = cfg.Workers

\* C2: when CompressBatch returns, results has the length of the input and
\* slot idx holds exactly what the invocation of CompressJSON on input idx
\* returned, which is one of the outputs of CompressJSON on that input and
\* holds the same records as every one of them.
C2_IndexAligned ==
    mpc = "returned" =>
        /\ Len(results) = Len(batches)
        /\ \A idx \in Indexes :
              /\ wres[idx] \in CompressJSON(cfg, batches[idx])
              /\ results[idx] = wres[idx].out
              /\ \A r \in CompressJSON(cfg, batches[idx]) : SamePayload(results[idx], r.out)

\* A returned batch of different payloads: one that is not an array first, a
\* compressed one after it, and then an array that could not be encoded.
C2_Witness ==
    /\ mpc = "returned"
    /\ Len(batches) >= 3
    /\ ~IsArray(batches[1]) /\ results[1] = NilBytes
    /\ results[2].k = "json" /\ Len(results[2].recs) = 2
    /\ IsArray(batches[3]) /\ results[3] = NilBytes

\* CompressJSON compresses the payload: it is an array whose aggregates can
\* all be encoded.
Compressible(c, doc) == \E r \in CompressJSON(c, doc) : r.err = NoError

\* C3: an item whose CompressJSON returned an error (the payload is not an
\* array, or its output cannot be encoded) leaves its own slot nil and no
\* other: every other item that has written its slot holds its own
\* successful result there, and a returned call has dispatched every item.
C3_FailureIsolated ==
    /\ \A k \in Indexes :
          (k \in Stored /\ wres[k].err # NoError) =>
              /\ results[k] = NilBytes
              /\ \A j \in Stored \ {k} :
                    \/ /\ wres[j].err = NoError
                       /\ results[j] = wres[j].out
                       /\ results[j].k = "json"
                    \/ ~Compressible(cfg, batches[j])
    /\ mpc = "returned" => next = Len(batches)

\* The call has returned; the item in the middle failed in json.Marshal, its
\* neighbours did not fail.
C3_Witness ==
    /\ mpc = "returned"
    /\ Len(batches) = 3
    /\ wres[2].err = ErrUnsupported(PosInf) /\ results[2] = NilBytes
    /\ results[1].k = "json" /\ results[3].k = "json"

\* C4: when CompressBatch has returned every goroutine has run to its end,
\* all permits are back, and no write of a slot is still to come.
C4_ReturnAfterAll ==
    mpc = "returned" =>
        /\ \A idx \in Indexes : wpc[idx] = "done"
        /\ sem = 0 /\ wg = 0
        /\ ~ENABLED (\E idx \in Indexes : WStore(idx))

\* A returned call that had scheduled several items.
C4_Witness ==
    /\ mpc = "returned"
    /\ Len(batches) >= 2
    /\ \A idx \in Indexes : wpc[idx] = "done"

\* C21: under fair scheduling CompressBatch eventually returns, for the
\* empty batch and for batches longer than Workers alike, and until it has
\* returned some goroutine can always take a step (no deadlock); every
\* resolved config has Workers >= 1.
C21_EventuallyReturns ==
    /\ <>(mpc = "returned")
    /\ [](cfg.Workers >= 1 /\ (mpc # "returned" => ENABLED Next))

\* A batch longer than the pool of a single permit has returned.
C21_Witness ==
    /\ mpc = "returned"
    /\ cfg.Workers = 1
    /\ Len(batches) = MaxBatch
    /\ next = Len(batches)

\* How far the goroutine of an index has come.
Progress(pc) ==
    CASE pc = "none" -> 0 [] pc = "ready" -> 1 [] pc = "running" -> 2
      [] pc = "computed" -> 3 [] pc = "release" -> 4 [] pc = "finish" -> 5
      [] OTHER -> 6

\* The step changes slot k of the results slice.
Writes(k) == results'[k] # results[k]

\* C22: a step that writes a result slot is the one write of the goroutine
\* scheduled for that index, whose item succeeded: it writes no other
\* slot, the slot was unwritten before, and no goroutine comes back to its
\* write; the slot of a failed item is never written.
C22_OneWriter ==
    [][\A k \in DOMAIN results :
          /\ Progress(wpc'[k]) >= Progress(wpc[k])
          /\ Writes(k) =>
                /\ wpc[k] = "computed" /\ wpc'[k] = "release"
                /\ wres[k].err = NoError
                /\ results[k] = NilBytes
                /\ results'[k] = wres[k].out
                /\ \A j \in DOMAIN results \ {k} : ~Writes(j)
          /\ wres[k].err # NoError => results'[k] = NilBytes]_vars

\* Two goroutines have written their slots side by side, and a third, whose
\* item failed, has passed its write and left its slot unwritten.
C22_Witness ==
    /\ Len(batches) = 3
    /\ wpc[1] = "release" /\ results[1] = wres[1].out /\ results[1].k = "json"
    /\ wpc[2] = "release" /\ results[2] = wres[2].out /\ results[2].k = "json"
    /\ wpc[3] = "done" /\ wres[3].err = ErrNotArray /\ results[3] = NilBytes

-----------------------------------------------------------------------------
(* Properties of CompressJSON, checked under SpecJSON.                     *)

\* The array elements the scan has visited so far.
Visited == IF IsArray(data) /\ jpc \in {"scan", "done"} THEN SubSeq(data.elems, 1, pos - 1) ELSE <<>>

VisitedIncluded == {n \in DOMAIN Visited : Included(cfg, Visited[n])}

\* An object whose timestamp field is present and is not the number zero.
HasTimestamp(c, value) ==
    /\ IsObject(value)
    /\ Exists(Get(value, c.TimestampField))
    /\ Get(value, c.TimestampField) # Num(0)

\* The (field, value) pairs of the listed fields present on the record, in order.
RECURSIVE FieldTuple(_, _)
FieldTuple(fields, value) ==
    IF fields = <<>> THEN <<>>
    ELSE LET val == Get(value, Head(fields))
         IN  (IF Exists(val) THEN <<<<Head(fields), ResultString(val)>>>> ELSE <<>>)
                 \o FieldTuple(Tail(fields), value)

\* The three components of a record's group identity.
Components(c, value) ==
    <<Window(c, Timestamp(c, value)),
      FieldTuple(c.GroupByFields, value),
      FieldTuple(c.UniqueFields, value)>>

\* C5: for an input whose top-level value is not an array CompressJSON
\* returns the error "expected JSON array" with a nil output, and no group
\* was built on the way.
C5_NotArrayRejected ==
    (jpc = "done" /\ ~IsArray(data)) =>
        /\ jres.err = ErrNotArray
        /\ jres.out = NilBytes
        /\ groups = <<>>

\* CompressJSON has returned on a JSON object.
C5_Witness ==
    /\ jpc = "done"
    /\ IsObject(data)
    /\ jres.err = ErrNotArray

\* C6: only objects whose timestamp field is present and non-zero contribute:
\* every element the callback lets through is such an object, the groups
\* map (its keys, counts, timestamps and value sequences) is what the scan
\* builds from those objects of the visited prefix alone, and the skipped
\* elements raise no error: an array fails only on a value of an included
\* object, never on what a skipped element holds.
C6_SkippedContributeNothing ==
    LET vis == Visited
    IN  /\ \A n \in DOMAIN vis : Included(cfg, vis[n]) => HasTimestamp(cfg, vis[n])
        /\ jpc \in {"scan", "done"} =>
              groups = Scan(cfg, <<>>, SelectSeq(vis, LAMBDA e : HasTimestamp(cfg, e)))
        /\ (jpc = "done" /\ IsArray(data) /\ jres.err # NoError) =>
              \E n \in VisitedIncluded : \E m \in DOMAIN cfg.ValueFields :
                  ~IsFinite(ResultFloat(Get(vis[n], cfg.ValueFields[m])))

\* The scan is over; it skipped an object carrying the value "Inf" under a
\* zero or missing timestamp, it grouped another record, and it returned
\* no error.
C6_Witness ==
    /\ jpc = "done"
    /\ IsArray(data)
    /\ jres.err = NoError
    /\ \E n \in DOMAIN data.elems :
          /\ IsObject(data.elems[n])
          /\ Timestamp(cfg, data.elems[n]) = 0
          /\ ResultFloat(Get(data.elems[n], FV)) = PosInf
    /\ \E n \in DOMAIN data.elems : Included(cfg, data.elems[n])
    /\ Cardinality(DOMAIN groups) = 1

\* C7: two included records have the same group key if and only if their
\* window, their group-by (field, value) tuple and their unique (field,
\* value) tuple are the same.
C7_KeyIffComponents ==
    \A m, n \in VisitedIncluded :
        (GroupKey(cfg, Visited[m]) = GroupKey(cfg, Visited[n]))
            <=> (Components(cfg, Visited[m]) = Components(cfg, Visited[n]))

\* The (presence, value) of one field on a record.
FieldOf(value, field) == FieldTuple(<<field>>, value)

\* The records differ in exactly one unique field, and in nothing else of
\* their group identity.
DifferInOneUniqueField(c, x, y) ==
    /\ Window(c, Timestamp(c, x)) = Window(c, Timestamp(c, y))
    /\ FieldTuple(c.GroupByFields, x) = FieldTuple(c.GroupByFields, y)
    /\ \E n \in DOMAIN c.UniqueFields :
          /\ FieldOf(x, c.UniqueFields[n]) # FieldOf(y, c.UniqueFields[n])
          /\ \A m \in DOMAIN c.UniqueFields \ {n} :
                FieldOf(x, c.UniqueFields[m]) = FieldOf(y, c.UniqueFields[m])

\* C8: included records with the same window, group-by tuple and unique
\* tuple are counted in one and the same group; records that differ in the
\* value of one unique field, all else equal, are in two different groups,
\* whose output records differ.
C8_UniqueFieldsSeparate ==
    LET vis == Visited
        inc == VisitedIncluded
    IN  \A m \in inc :
            LET x == vis[m]
                kx == GroupKey(cfg, x)
                cx == Components(cfg, x)
            IN  /\ kx \in DOMAIN groups
                /\ \A n \in {i \in inc : i > m} :
                      LET y == vis[n]
                          ky == GroupKey(cfg, y)
                      IN  /\ cx = Components(cfg, y) =>
                                /\ kx = ky
                                /\ groups[kx].Count >= 2
                          /\ DifferInOneUniqueField(cfg, x, y) =>
                                /\ kx # ky
                                /\ OutputObject(cfg, groups[kx]) # OutputObject(cfg, groups[ky])

\* Two records that differ in one unique field only have been scanned, and
\* they are in two groups.
C8_Witness ==
    /\ jpc = "done"
    /\ Len(cfg.UniqueFields) = 2
    /\ \E m, n \in VisitedIncluded : DifferInOneUniqueField(cfg, Visited[m], Visited[n])
    /\ Cardinality(DOMAIN groups) = 2

\* C9: the output holds as many records as there are distinct (window,
\* group-by tuple, unique tuple) combinations among the included records.
C9_OneRecordPerCombination ==
    (jpc = "done" /\ IsArray(data)) =>
        /\ jres.err = NoError
        /\ Len(jres.out.recs) =
              Cardinality({Components(cfg, Visited[n]) : n \in VisitedIncluded})

\* C10: the window start of every included record is its timestamp rounded
\* down to a multiple of the window length: W = floor(t / w) * w, and
\* W <= t < W + w.
C10_WindowIsFloor ==
    \A n \in VisitedIncluded :
        LET t == Timestamp(cfg, Visited[n])
            w == WindowSec(cfg)
            W == groups[GroupKey(cfg, Visited[n])].Window
        IN  /\ W = FloorDiv(t, w) * w
            /\ W <= t
            /\ t < W + w

\* C19: after each record processed, every group has FirstTime <= LastTime,
\* FirstTime is the least and LastTime the greatest timestamp of the records
\* that have joined the group so far, in whatever order they arrived, and
\* Count is the number of those records.
C19_GroupTimes ==
    LET vis == Visited
        inc == VisitedIncluded
    IN  \A key \in DOMAIN groups :
            LET group == groups[key]
                members == {n \in inc : GroupKey(cfg, vis[n]) = key}
                times == {Timestamp(cfg, vis[n]) : n \in members}
            IN  /\ members # {}
                /\ group.FirstTime <= group.LastTime
                /\ group.FirstTime \in times
                /\ \A t \in times : group.FirstTime <= t
                /\ group.LastTime \in times
                /\ \A t \in times : t <= group.LastTime
                /\ group.Count = Cardinality(members)

\* A group has been joined by the later timestamp first and the earlier one
\* after it.
C19_Witness ==
    /\ jpc = "scan"
    /\ pos = 3
    /\ Timestamp(cfg, data.elems[1]) > Timestamp(cfg, data.elems[2])
    /\ \E key \in DOMAIN groups :
          /\ groups[key].Count = 2
          /\ groups[key].FirstTime = Timestamp(cfg, data.elems[2])
          /\ groups[key].LastTime = Timestamp(cfg, data.elems[1])

-----------------------------------------------------------------------------
(* Properties of the output records, checked under SpecOut.                *)

\* The records of the output, none when the call returned an error.
OutputRecords == IF jres.out.k = "json" THEN jres.out.recs ELSE <<>>

\* The integer average of two timestamps, with truncating division.
IntegerAverage(a, b) == GoDiv(a + b, 2)

\* C11: for every group the emitted timestamp is the first-seen timestamp
\* under the method "first", the last-seen timestamp under "last", and
\* under every other method the integer average of the two (division
\* truncating), for all timestamps of the integer range.
C11_EmittedTimestamp ==
    \A key \in DOMAIN groups :
        LET group == groups[key]
        IN  EmittedTimestamp(cfg, group) =
                CASE cfg.AggregationMethod = "first" -> group.FirstTime
                  [] cfg.AggregationMethod = "last" -> group.LastTime
                  [] OTHER -> IntegerAverage(group.FirstTime, group.LastTime)

\* The values of the listed fields present on one record, in list order.
RECURSIVE PresentValues(_, _)
PresentValues(fields, value) ==
    IF fields = <<>> THEN <<>>
    ELSE (IF Exists(Get(value, Head(fields)))
          THEN <<ResultFloat(Get(value, Head(fields)))>> ELSE <<>>)
             \o PresentValues(Tail(fields), value)

\* The one sequence of the values of all configured value fields on all
\* member records of the group, record after record.
RECURSIVE Interleaved(_, _, _)
Interleaved(c, key, elems) ==
    IF elems = <<>> THEN <<>>
    ELSE (IF Included(c, Head(elems)) /\ GroupKey(c, Head(elems)) = key
          THEN PresentValues(c.ValueFields, Head(elems)) ELSE <<>>)
             \o Interleaved(c, key, Tail(elems))

\* C14: each output record carries exactly one aggregate: under the name of
\* the sole value field when one is configured, under "value" when several
\* are, and it is the aggregate of the one interleaved sequence of the
\* values of all configured value fields on all member records; no other
\* field of the record besides the timestamp is a number.
C14_OneAggregate ==
    (jpc = "done" /\ IsArray(data)) =>
        /\ \A n \in DOMAIN OutputRecords :
              \E key \in DOMAIN groups : OutputRecords[n] = OutputObject(cfg, groups[key])
        /\ \A key \in DOMAIN groups :
              LET rec == OutputObject(cfg, groups[key])
                  name == IF Len(cfg.ValueFields) = 1 THEN cfg.ValueFields[1] ELSE ValueName
              IN  /\ name \in DOMAIN rec
                  /\ rec[name] = Num(aggregate(cfg, Interleaved(cfg, key, data.elems)))
                  /\ \A x \in DOMAIN rec \ {name, cfg.TimestampField} : rec[x].k # "num"

\* The names of the configured group-by and unique fields.
TagNames(c) ==
    {c.GroupByFields[n] : n \in DOMAIN c.GroupByFields}
        \cup {c.UniqueFields[n] : n \in DOMAIN c.UniqueFields}

\* C17: every record of the output holds the timestamp field with a number,
\* the emitted value field with a number, and besides them only
\* string-valued fields named after configured group-by or unique fields;
\* also when a tag has the name of the timestamp field or of the emitted
\* value field, and when the timestamp field is named "value" with several
\* value fields configured.
C17_RecordShape ==
    (jpc = "done" /\ IsArray(data)) =>
        \A n \in DOMAIN OutputRecords :
            LET rec == OutputRecords[n]
                name == EmittedValueField(cfg)
            IN  /\ cfg.TimestampField \in DOMAIN rec
                /\ rec[cfg.TimestampField].k = "num"
                /\ name \in DOMAIN rec
                /\ rec[name].k = "num"
                /\ \A x \in DOMAIN rec \ {cfg.TimestampField, name} :
                      x \in TagNames(cfg) /\ rec[x].k = "str"

-----------------------------------------------------------------------------
(* Properties of aggregate, checked under SpecAgg.                         *)

\* The arithmetic sum of a sequence, counted from its end.
RECURSIVE ArithSum(_)
ArithSum(seq) ==
    IF Len(seq) = 0 THEN Float64(0, 1)
    ELSE FloatAdd(seq[Len(seq)], ArithSum(SubSeq(seq, 1, Len(seq) - 1)))

\* The float f is t / n to the precision of a float64, for floats t and b
\* and an int n > 0: the exact n * f differs from t by 2^-52 of b at most.
Near(f, n, t, b) ==
    LET least(x, y) == IF x < y THEN x ELSE y
        e == least(f.exp, least(t.exp, b.exp))
        F == NatMul(Aligned(f, e), n)
        T == Aligned(t, e)
        diff == IF f.neg # t.neg THEN NatAdd(F, T)
                ELSE IF NatLess(F, T) THEN NatSub(T, F) ELSE NatSub(F, T)
    IN  /\ f.k = "float"
        /\ ~NatLess(Aligned(b, e), TimesPow(diff, 2, 52))

\* What the call returns under another method name.
AggregateAs(method) == aggregate([cfg EXCEPT !.AggregationMethod = method], vals)

\* The value of a finite element in 32nds, as an integer; both zeros are 0.
Units(x) ==
    IF x.d = <<>> THEN 0 ELSE CHOOSE u \in AggUnits : AggNumbers[u] = x

\* The sum of the finite elements of a sequence in 32nds, in integers.
RECURSIVE UnitSum(_)
UnitSum(seq) ==
    IF seq = <<>> THEN 0
    ELSE (IF IsFinite(Head(seq)) THEN Units(Head(seq)) ELSE 0) + UnitSum(Tail(seq))

\* The arithmetic sum of the elements as a float64: the sum of the numbers
\* counted in integers; infinite where an infinity is among them; and not
\* a number where NaN or both infinities are.
Total(seq) ==
    LET has(x) == \E n \in DOMAIN seq : seq[n] = x
    IN  IF has(NaN) \/ (has(PosInf) /\ has(NegInf)) THEN NaN
        ELSE IF has(PosInf) THEN PosInf
        ELSE IF has(NegInf) THEN NegInf
        ELSE Float64(UnitSum(seq), 32)

\* x <= y in the order of the numbers, -Inf the least and +Inf the
\* greatest, the two zeros equal; NaN is in no order with another element.
AtMost(x, y) ==
    LET place(z) == CASE z.k = "+Inf" -> 2^20
                      [] z.k = "-Inf" -> -(2^20)
                      [] OTHER -> Units(z)
    IN  x = y \/ (x.k # "NaN" /\ y.k # "NaN" /\ place(x) <= place(y))

\* What aggregate has returned is what its method is said to return on a
\* non-empty sequence.
AsClaimed ==
    LET method == cfg.AggregationMethod
        elems == {vals[n] : n \in DOMAIN vals}
        total == Total(vals)
    IN  /\ method = "sum" => agg = total
        /\ method \in {"avg", "mean"} =>
              /\ IF IsFinite(total)
                 THEN /\ Near(agg, Len(vals), total, total)
                      /\ agg.neg = total.neg
                      /\ agg = Float64(UnitSum(vals), 32 * Len(vals))
                 ELSE agg = total
              /\ agg = AggregateAs("avg")
              /\ agg = AggregateAs("mean")
        /\ method = "min" => agg \in elems /\ \A x \in elems : AtMost(agg, x)
        /\ method = "max" => agg \in elems /\ \A x \in elems : AtMost(x, agg)
        /\ method = "count" => agg = Float64(Len(vals), 1)
        /\ method = "first" => agg = vals[1]
        /\ method = "last" => agg = vals[Len(vals)]
        /\ method \notin {"sum", "avg", "mean", "min", "max", "count", "first", "last"} =>
              /\ agg = total
              /\ agg = AggregateAs("sum")

\* C12: on a non-empty sequence aggregate returns the arithmetic sum for
\* "sum", the arithmetic mean for "avg" and the same for "mean", the least
\* element for "min", the greatest for "max", the number of elements for
\* "count", the first element for "first", the last for "last", and for any
\* other method name what "sum" returns.
C12_AggregateMethods == (apc = "done" /\ Len(vals) > 0) => AsClaimed

\* The same on the sequences that have a least and a greatest element, the
\* ones without NaN, and under the methods that do not compare elements.
AggregateOnOrdered ==
    (/\ apc = "done"
     /\ Len(vals) > 0
     /\ \/ cfg.AggregationMethod \notin {"min", "max"}
        \/ \A n \in DOMAIN vals : vals[n] # NaN) => AsClaimed

\* The minimum of [0, -1/16, 1/32] has been computed: it is -1/16, an
\* element below 1/10 in size that is neither the first nor the last.
AggregateOnOrderedWitness ==
    /\ apc = "done"
    /\ vals = <<Float64(0, 1), Float64(-1, 16), Float64(1, 32)>>
    /\ cfg.AggregationMethod = "min"
    /\ agg = Float64(-1, 16)

\* C13: on an empty sequence aggregate returns exactly 0 under every method
\* name, and the call does not fail: it returns, and what it returns is
\* neither a division by zero's NaN nor an index panic.
C13_EmptyIsZero ==
    /\ (apc = "call" /\ vals = <<>>) => ENABLED AggregateCall
    /\ (apc = "done" /\ vals = <<>>) =>
          /\ agg.k = "float"
          /\ agg.d = <<>>
          /\ ~agg.neg

\* aggregate has returned on an empty sequence under the method "avg".
C13_Witness ==
    /\ apc = "done"
    /\ vals = <<>>
    /\ cfg.AggregationMethod = "avg"
    /\ agg = Float64(0, 1)

-----------------------------------------------------------------------------
(* Properties of NewCompressor, checked under SpecConfig.                  *)

\* The documented resolution of a config, field by field.
Documented(g) ==
    IF g = NilConfig THEN DefaultConfig
    ELSE [TimestampField |-> IF g.TimestampField = <<>> THEN TimestampName
                             ELSE g.TimestampField,
          ValueFields |-> IF g.ValueFields = <<>> THEN <<ValueName>> ELSE g.ValueFields,
          GroupByFields |-> g.GroupByFields,
          AggregationMethod |-> IF g.AggregationMethod = "" THEN "sum"
                                ELSE g.AggregationMethod,
          TimeWindow |-> IF g.TimeWindow = 0 THEN 60 * Second ELSE g.TimeWindow,
          UniqueFields |-> g.UniqueFields,
          Workers |-> IF g.Workers <= 0 THEN 4 ELSE g.Workers]

\* C15: the resolved config is the given one with exactly its zero-valued
\* fields (and any worker count <= 0) replaced by the documented defaults;
\* its timestamp field, value fields and method are non-empty, its window
\* is non-zero and Workers > 0; resolving the resolved config again gives
\* the same config; a nil config resolves to DefaultConfig().
C15_ResolveDefaults ==
    npc \in {"resolved", "again"} =>
        /\ cfg = Documented(given)
        /\ cfg.TimestampField # <<>>
        /\ Len(cfg.ValueFields) > 0
        /\ cfg.AggregationMethod # ""
        /\ cfg.TimeWindow # 0
        /\ cfg.Workers > 0
        /\ given = NilConfig => cfg = DefaultConfig

\* A config with some fields zero, a negative worker count and a window of
\* its own has been resolved twice.
C15_Witness ==
    /\ npc = "again"
    /\ given # NilConfig
    /\ given.TimestampField = <<>> /\ cfg.TimestampField = TimestampName
    /\ given.Workers < 0 /\ cfg.Workers = 4
    /\ given.TimeWindow = 2 * Second /\ cfg.TimeWindow = 2 * Second
    /\ given.AggregationMethod = "avg" /\ cfg.AggregationMethod = "avg"

\* C16: NewCompressor leaves the caller's Config object as it was given,
\* and the defaults are in the config of the returned Compressor only.
C16_CallerUnchanged ==
    npc \in {"resolved", "again"} =>
        /\ caller = given
        /\ cfg = Documented(given)

-----------------------------------------------------------------------------
(* Properties of GetCompressionRatio, checked under SpecRatio.             *)

\* C18: for an empty input the ratio is exactly 0; for an input of length
\* N > 0 and an output of length M it is 1 - M/N, which is at most 1 and is
\* negative exactly when M > N (it is not clamped to [0, 1]).
C18_Ratio ==
    rpc = "done" =>
        /\ ratio.k = "float"
        /\ inputLen = 0 => (ratio.d = <<>> /\ ~ratio.neg)
        /\ inputLen > 0 =>
              /\ Near(ratio, inputLen, Float64(inputLen - outputLen, 1),
                      Float64(inputLen + outputLen, 1))
              /\ ~FloatLess(Float64(1, 1), ratio)
              /\ FloatLess(ratio, Float64(0, 1)) <=> (outputLen > inputLen)

\* The ratio of an output twice as long as its input has been computed: -1.
C18_Witness ==
    /\ rpc = "done"
    /\ inputLen = 2
    /\ outputLen = 4
    /\ ratio = Float64(-1, 1)

-----------------------------------------------------------------------------
(* Properties of concurrent callers, checked under SpecCalls.              *)

\* C20: the Compressor keeps no state across calls: its resolved config is
\* never modified, the groups map of an invocation holds what that
\* invocation's own scan has grouped and nothing else, and what an
\* invocation returns is an output of CompressJSON on its input alone,
\* whatever calls came before it or run beside it.
C20_Stateless ==
    /\ cfg = NewCompressor(given)
    /\ \A p \in Callers :
          LET call == calls[p]
          IN  /\ call.pc = "scan" =>
                    maps[p] = Scan(cfg, <<>>, SubSeq(call.data.elems, 1, call.pos - 1))
              /\ call.pc = "done" =>
                    /\ call.res \in CompressJSON(cfg, call.data)
                    /\ \A r \in CompressJSON(cfg, call.data) : SamePayload(call.res.out, r.out)

\* One caller has returned two records while another, called on the same
\* input, is in the middle of its scan.
C20_Witness ==
    /\ calls[1].pc = "done"
    /\ calls[1].res.out.k = "json"
    /\ Len(calls[1].res.out.recs) = 2
    /\ calls[2].pc = "scan"
    /\ calls[2].data = calls[1].data
    /\ calls[2].pos = 2
    /\ Cardinality(DOMAIN maps[2]) = 1

-----------------------------------------------------------------------------
(* Conservation and attribution of the output records, under SpecOut.      *)

\* The values of the configured value fields present on the included
\* records of an array, record after record.
RECURSIVE IncludedValues(_, _)
IncludedValues(c, elems) ==
    IF elems = <<>> THEN <<>>
    ELSE (IF Included(c, Head(elems)) THEN PresentValues(c.ValueFields, Head(elems))
          ELSE <<>>) \o IncludedValues(c, Tail(elems))

\* The emitted values of the records are numbers that add up to total.
RECURSIVE EmittedAddUpTo(_, _, _)
EmittedAddUpTo(recs, name, total) ==
    IF recs = <<>> THEN total = Float64(0, 1)
    ELSE LET rec == Head(recs)
         IN  /\ name \in DOMAIN rec
             /\ rec[name].k = "num"
             /\ EmittedAddUpTo(Tail(recs), name, FloatSub(total, rec[name].n))

\* C23: under the method "sum" the emitted values of all output records add
\* up to the sum of all configured value-field values present on the
\* included records, and under "count" to the number of those values, in
\* every output the call returns.
C23_Conservation ==
    (jpc = "done" /\ IsArray(data) /\ jres.err = NoError) =>
        LET present == IncludedValues(cfg, data.elems)
        IN  /\ cfg.AggregationMethod = "sum" =>
                  EmittedAddUpTo(OutputRecords, EmittedValueField(cfg), ArithSum(present))
            /\ cfg.AggregationMethod = "count" =>
                  EmittedAddUpTo(OutputRecords, EmittedValueField(cfg),
                                 Float64(Len(present), 1))

\* The whole numbers a record holds under the timestamp field: none when the
\* field is absent or holds a string, the aggregate when the timestamp field
\* is also the emitted value field, and the emitted timestamp otherwise.
TimestampHeld(c, rec) ==
    IF c.TimestampField \notin DOMAIN rec THEN {}
    ELSE LET held == rec[c.TimestampField]
         IN  IF held.k # "num" THEN {}
             ELSE IF c.TimestampField = EmittedValueField(c)
                  THEN (IF held.n.k = "float" /\ held.n.exp >= 0 THEN {IntOfFloat(held.n)}
                        ELSE {})
                  ELSE {held.n}

\* C24: under every aggregation method, the timestamp of every output
\* record lies between the first-seen and the last-seen timestamp of the
\* group that produced it, and bucketed again with the same window length
\* it falls into that group's window.
C24_Attribution ==
    (jpc = "done" /\ IsArray(data)) =>
        \A n \in DOMAIN OutputRecords :
            \E key \in DOMAIN groups :
                /\ OutputRecords[n] = OutputObject(cfg, groups[key])
                /\ \E ts \in TimestampHeld(cfg, OutputRecords[n]) :
                      /\ groups[key].FirstTime <= ts
                      /\ ts <= groups[key].LastTime
                      /\ Window(cfg, ts) = groups[key].Window

====
